---------------------------- MODULE Spec2Model ----------------------------
(***************************************************************************)
(* Event-driven recurrence and reminder scheduling: the four consumer      *)
(* services (audit, notification, recurring, reminder) and the backend     *)
(* operations that write the stores they read.                             *)
(*                                                                         *)
(* Time is counted in whole days: every comparison in the code is between  *)
(* a clock reading and a clock reading plus a whole number of days.        *)
(***************************************************************************)
EXTENDS Integers, Sequences, FiniteSets, TLC

(***************************************************************************)
(* Bounds of the model.                                                    *)
(***************************************************************************)
MaxNow == 2
MaxRows == 2
MaxRestarts == 1
MaxReminders == 2
MaxFrom == 4
MaxInterval == 3
MaxLate == 1
\* The number of events the backend emits.
MaxEvents == 2

(***************************************************************************)
(* JSON values.  A dict is a record; d.get(k, default) is Get.             *)
(***************************************************************************)
Get(d, k, default) == IF k \in DOMAIN d THEN d[k] ELSE default

\* The empty dict {} and JSON null (Python None): the two falsy rule values.
EmptyDict == << >>
JsonNull == [null |-> TRUE]
EmptyRule == EmptyDict
NullRule == JsonNull

\* Python truthiness of a rule value as the code tests it (`if rule`).
Truthy(rule) == rule # NullRule /\ rule # EmptyRule

Weekly2 == [frequency |-> "weekly", interval |-> 2]

\* {"frequency": f, "interval": null}.  The null is kept under a key of its
\* own, so that an interval is always a number.
NullInterval(f) == [frequency |-> f, interval_null |-> TRUE]
Daily1 == [frequency |-> "daily", interval |-> 1]

(***************************************************************************)
(* Rule Evaluator.                                                         *)
(***************************************************************************)
DaysPerWeek == 7
DaysPerMonth == 30
FallbackDays == 1
DefaultInterval == 1

\* timedelta(days=d) / timedelta(weeks=w), in days.
TimedeltaDays(d) == d
TimedeltaWeeks(w) == DaysPerWeek * w

\* An Optional[datetime]: None is the empty tuple, a timestamp t is <<t>>.
None == << >>
Some(t) == <<t>>

\* The frequencies with a period of their own.
KnownFrequencies == {"daily", "weekly", "monthly"}

\* _compute_next_trigger raises TypeError: timedelta(days=None),
\* timedelta(weeks=None) or 30 * None, when the rule's interval is null and
\* its frequency is one that uses the interval.
ComputeNextTriggerRaises(recurring_rule) ==
    /\ Truthy(recurring_rule)
    /\ "interval_null" \in DOMAIN recurring_rule
    /\ Get(recurring_rule, "frequency", "daily") \in KnownFrequencies

\* _compute_next_trigger logs "Unsupported frequency".
ComputeNextTriggerWarns(recurring_rule) ==
    /\ Truthy(recurring_rule)
    /\ Get(recurring_rule, "frequency", "daily") \notin KnownFrequencies

\* The evaluator with the fallback period multiplied by the interval.
ComputeNextTriggerFallbackTimesInterval(recurring_rule, from_time) ==
    IF ~Truthy(recurring_rule) THEN None
    ELSE LET frequency == Get(recurring_rule, "frequency", "daily")
             interval == Get(recurring_rule, "interval", DefaultInterval)
         IN  IF frequency = "daily" THEN Some(from_time + TimedeltaDays(interval))
             ELSE IF frequency = "weekly"
                  THEN Some(from_time + TimedeltaWeeks(interval))
             ELSE IF frequency = "monthly"
                  THEN Some(from_time + TimedeltaDays(DaysPerMonth * interval))
             ELSE Some(from_time + TimedeltaDays(FallbackDays * interval))

\* The evaluator with an interval below 1 taken for 1.
ComputeNextTriggerClamps(recurring_rule, from_time) ==
    IF ~Truthy(recurring_rule) THEN None
    ELSE LET frequency == Get(recurring_rule, "frequency", "daily")
             given == Get(recurring_rule, "interval", DefaultInterval)
             interval == IF given < 1 THEN 1 ELSE given
         IN  IF frequency = "daily" THEN Some(from_time + TimedeltaDays(interval))
             ELSE IF frequency = "weekly"
                  THEN Some(from_time + TimedeltaWeeks(interval))
             ELSE IF frequency = "monthly"
                  THEN Some(from_time + TimedeltaDays(DaysPerMonth * interval))
             ELSE Some(from_time + TimedeltaDays(FallbackDays))

\* The evaluator with a week counted as one day.
ComputeNextTriggerWeeklyAsDays(recurring_rule, from_time) ==
    IF ~Truthy(recurring_rule) THEN None
    ELSE LET frequency == Get(recurring_rule, "frequency", "daily")
             interval == Get(recurring_rule, "interval", DefaultInterval)
         IN  IF frequency = "daily" THEN Some(from_time + TimedeltaDays(interval))
             ELSE IF frequency = "weekly"
                  THEN Some(from_time + TimedeltaDays(interval))
             ELSE IF frequency = "monthly"
                  THEN Some(from_time + TimedeltaDays(DaysPerMonth * interval))
             ELSE Some(from_time + TimedeltaDays(FallbackDays))

\* _compute_next_trigger(rule, from_time), when it does not raise
ComputeNextTrigger(recurring_rule, from_time) ==
    IF ~Truthy(recurring_rule) THEN None
    ELSE LET frequency == Get(recurring_rule, "frequency", "daily")
             interval == Get(recurring_rule, "interval", DefaultInterval)
         IN  IF frequency = "daily" THEN Some(from_time + TimedeltaDays(interval))
             ELSE IF frequency = "weekly"
                  THEN Some(from_time + TimedeltaWeeks(interval))
             ELSE IF frequency = "monthly"
                  THEN Some(from_time + TimedeltaDays(DaysPerMonth * interval))
             ELSE Some(from_time + TimedeltaDays(FallbackDays))

(***************************************************************************)
(* Events and request bodies.                                              *)
(***************************************************************************)
Keys == {"k1", "k2"}
NoKey == ""
AllKeys == Keys \cup {NoKey}

TaskIds == {1, 2}
\* int(entity_id): "1" and "2" parse, "x" raises ValueError.
ParsesAsInt(s) == s \in {"1", "2"}
IntOf(s) == IF s = "1" THEN 1 ELSE 2

Event(k, t, e, r) ==
    [idempotency_key |-> k, event_type |-> t, entity_id |-> e,
     payload |-> [recurring_rule |-> r]]

\* A reminder event: its payload has no recurring_rule.
PlainEvent(k, t, e) ==
    [idempotency_key |-> k, event_type |-> t, entity_id |-> e,
     payload |-> [task_id |-> e]]

\* An event that carries neither an idempotency key nor a payload.
BareEvent(t, e) == [event_type |-> t, entity_id |-> e]

\* An event whose payload is JSON null: payload.get(...) raises AttributeError.
NullPayloadEvent(k, t, e) ==
    [idempotency_key |-> k, event_type |-> t, entity_id |-> e, payload |-> JsonNull]

\* A body request.json() cannot decode.
MalformedBody == [malformed |-> TRUE]

Wrap(ev) == [data |-> ev]

\* The bodies delivered on each topic: one well-formed registration per task,
\* then the same event with one thing changed at a time.
TodoEvents ==
    {Event("k1", "task_created", "1", Weekly2),
     Event("k2", "task_updated", "2", Daily1),
     Event(NoKey, "task_created", "1", Daily1),
     Event("k2", "task_deleted", "1", Weekly2),
     Event("k1", "task_created", "x", Weekly2),
     Event("k2", "task_created", "1", NullRule),
     Event("k1", "task_created", "2", EmptyRule),
     BareEvent("task_created", "1"),
     NullPayloadEvent("k1", "task_created", "1")}

ReminderEvents ==
    {PlainEvent("k1", "reminder_scheduled", "1"),
     PlainEvent("k2", "reminder_cancelled", "1"),
     PlainEvent(NoKey, "reminder_scheduled", "1"),
     PlainEvent("k2", "bogus", "1"),
     NullPayloadEvent("k1", "reminder_scheduled", "1")}

OtherEvents ==
    {PlainEvent("k1", "ai_tool_called", "1"),
     PlainEvent("k2", "bogus", "1"),
     PlainEvent(NoKey, "ai_tool_called", "1")}

\* Each event as it is, the first one also in a CloudEvents envelope, and a
\* body that is not JSON.
Bodies(events) ==
    events \cup {Wrap(ev) : ev \in {x \in events : Get(x, "idempotency_key", NoKey) = "k1"
                                                  /\ x.entity_id = "1"
                                                  /\ Get(x, "payload", JsonNull) # JsonNull}}
           \cup {MalformedBody}

\* request.json() raises on an undecodable body.
JsonRaises(body) == "malformed" \in DOMAIN body

\* A handler that takes the body for the event, enveloped or not.
ExtractEventDataAsIs(body) == body

\* _extract_event_data(body): body.get("data", body).
ExtractEventData(body) == Get(body, "data", body)

(***************************************************************************)
(* State.                                                                  *)
(***************************************************************************)
VARIABLES
    running,        \* the consumer service whose process is observed
    now,            \* the clock, in days
    life,           \* how many times the process was restarted
    auditKeys,      \* audit consumer: _processed_keys
    auditRows,      \* audit_logs table: number of rows per idempotency key
    auditWritten,   \* rows per key written by the running audit process
    notifKeys,      \* notification consumer: _processed_keys
    notified,       \* NOTIFICATION log lines per idempotency key
    recKeys,        \* recurring consumer: _processed_keys
    remKeys,        \* reminder consumer: _processed_keys
    schedule,       \* recurring consumer: _recurring_schedule, in dict order
    ticks,          \* the running process: the requests it holds
    tasks,          \* tasks table: task id -> recurring_rule, or Absent
    reminders,      \* reminders table: a sequence of [task_id, trigger_at, status]
    sweepSession,   \* reminder sweep in flight: the ids its SELECT loaded
    cancelSession,  \* cancel_reminder in flight: the id its SELECT loaded
    bus,            \* the backend's events: scheduled publishes, the topic, the keys drawn
    last            \* the latest operation: its name, inputs and results

vars == <<running, now, life, auditKeys, auditRows, auditWritten, notifKeys,
          notified, recKeys, remKeys, schedule, ticks, tasks, reminders,
          sweepSession, cancelSession, bus, last>>

\* The variables of each service and of the store, for the frame conditions.
auditVars == <<auditKeys, auditRows, auditWritten>>
notifVars == <<notifKeys, notified>>
recVars == <<recKeys, schedule, ticks>>
remVars == <<remKeys, sweepSession>>
backendVars == <<cancelSession, bus>>

Consumers == {"audit", "notification", "recurring", "reminder"}

Handlers ==
    {"audit_todo", "audit_ai", "audit_audit", "notification_todo",
     "recurring_recurring", "recurring_todo", "reminder_reminder"}

IsDelivery(l) == l.name \in Handlers

\* No database session is open.
NoSession == [open |-> FALSE]

\* The cron requests one recurring process can hold at a time, and a request
\* that is not being served.
Requests == {"a", "b"}

\* No event scheduled for publishing, none on the topic, no key drawn.
NoEvents == [scheduled |-> {}, topic |-> {}, keys |-> {}]

IdleTick == [pc |-> "idle"]
NoTicks == [q \in Requests |-> IdleTick]

(***************************************************************************)
(* Idempotency guard (the same code in each consumer).                     *)
(***************************************************************************)
\* A guard that recognises no key.
IsDuplicateNever(idempotency_key, processed) == FALSE

\* _is_duplicate(key)
IsDuplicate(idempotency_key, processed) == idempotency_key \in processed

\* A guard that records no key.
MarkProcessedForgets(idempotency_key, processed) == processed

\* _mark_processed(key)
MarkProcessed(idempotency_key, processed) == processed \cup {idempotency_key}

\* The part of every handler up to the duplicate check: how the delivery goes on.
\* "raised": the body could not be decoded; "duplicate": acknowledged at once;
\* "fresh": the domain operation is invoked.
Admit(body, processed) ==
    IF JsonRaises(body) THEN "raised"
    ELSE LET key == Get(ExtractEventData(body), "idempotency_key", NoKey)
         IN  IF key # NoKey /\ IsDuplicate(key, processed) THEN "duplicate"
             ELSE "fresh"

KeyOf(body) ==
    IF JsonRaises(body) THEN NoKey
    ELSE Get(ExtractEventData(body), "idempotency_key", NoKey)

\* The trailing `if idempotency_key: _mark_processed(idempotency_key)`.
\* A handler without the trailing mark.
MarkIfKeyedSkips(key, processed) == processed

\* A handler that marks whatever key it read, the empty one included.
MarkIfKeyedAlways(key, processed) == MarkProcessed(key, processed)

MarkIfKeyed(key, processed) ==
    IF key # NoKey THEN MarkProcessed(key, processed) ELSE processed

\* A handler that answers an exception with an error.
HandlerResponsePropagates(outcome) ==
    IF outcome = "raised" THEN "ERROR" ELSE "SUCCESS"

\* What a handler returns: the early return of the duplicate branch, or the
\* return after the try/except that swallows every exception.
HandlerResponse(outcome) ==
    CASE outcome = "duplicate" -> "SUCCESS"
      [] outcome = "raised" -> "SUCCESS"
      [] OTHER -> "SUCCESS"

\* The record of a delivery: `repeat` says that the operation before it (the
\* clock aside) was the delivery of the same body to the same handler, and
\* prevAck is what that delivery returned.
Delivery(h, body, outcome, effect) ==
    LET repeat == last.name = h /\ last.body = body
    IN  [name |-> h, body |-> body, outcome |-> outcome, effect |-> effect,
         ack |-> HandlerResponse(outcome), repeat |-> repeat,
         prevAck |-> IF repeat THEN last.ack ELSE "none"]

ConsumerOf(h) ==
    CASE h \in {"audit_todo", "audit_ai", "audit_audit"} -> "audit"
      [] h = "notification_todo" -> "notification"
      [] h \in {"recurring_recurring", "recurring_todo"} -> "recurring"
      [] h = "reminder_reminder" -> "reminder"
      [] OTHER -> "none"

\* What the delivery just handled leaves in `last`.
Record(h, body, outcome, effect) ==
    /\ running = ConsumerOf(h)
    /\ last' = Delivery(h, body, outcome, effect)

\* A restart of the running process.
Restarted(c) ==
    /\ running = c
    /\ life < MaxRestarts
    /\ life' = life + 1
    /\ last' = [name |-> "restart"]

(***************************************************************************)
(* Audit consumer.  The audit_logs table has no key column: auditRows      *)
(* counts each row under the idempotency key of the event it was written   *)
(* for.                                                                    *)
(***************************************************************************)
\* _persist_audit_record: one INSERT; a store failure is logged and swallowed.
PersistAuditRecord(rows, key, storeOk) ==
    IF storeOk THEN [rows EXCEPT ![key] = @ + 1] ELSE rows

\* The three audit handlers run the same steps: decode, duplicate check,
\* persist, mark.
AuditOutcome(body, storeOk) ==
    LET adm == Admit(body, auditKeys)
        key == KeyOf(body)
    IN  IF adm # "fresh"
        THEN [outcome |-> adm, rows |-> auditRows, written |-> auditWritten,
              keys |-> auditKeys]
        ELSE [outcome |-> "processed",
              rows |-> PersistAuditRecord(auditRows, key, storeOk),
              written |-> PersistAuditRecord(auditWritten, key, storeOk),
              keys |-> MarkIfKeyed(key, auditKeys)]

AuditHandle(h, body, storeOk) ==
    LET r == AuditOutcome(body, storeOk)
    IN  /\ r.rows[KeyOf(body)] <= MaxRows
        /\ auditRows' = r.rows
        /\ auditWritten' = r.written
        /\ auditKeys' = r.keys
        /\ Record(h, body, r.outcome, r.rows # auditRows)
        /\ UNCHANGED <<running, now, life, notifVars, recVars, remVars, tasks,
                       reminders, backendVars>>

\* POST /events/todo of the audit consumer
AuditHandleTodoEvent ==
    \E body \in Bodies(TodoEvents), storeOk \in BOOLEAN :
        AuditHandle("audit_todo", body, storeOk)

\* POST /events/ai
AuditHandleAiEvent ==
    \E body \in Bodies(OtherEvents), storeOk \in BOOLEAN :
        AuditHandle("audit_ai", body, storeOk)

\* POST /events/audit
AuditHandleAuditEvent ==
    \E body \in Bodies(OtherEvents), storeOk \in BOOLEAN :
        AuditHandle("audit_audit", body, storeOk)

\* A restart that finds the keys of the process before it.
RestartAuditKeepsKeys ==
    /\ Restarted("audit")
    /\ auditWritten' = [k \in AllKeys |-> 0]
    /\ UNCHANGED <<running, now, auditKeys, auditRows, notifVars, recVars,
                   remVars, tasks, reminders, backendVars>>

\* The audit process is stopped and started again: _processed_keys is empty.
RestartAudit ==
    /\ Restarted("audit")
    /\ auditKeys' = {}
    /\ auditWritten' = [k \in AllKeys |-> 0]
    /\ UNCHANGED <<running, now, auditRows, notifVars, recVars, remVars, tasks,
                   reminders, backendVars>>

(***************************************************************************)
(* Notification consumer.                                                  *)
(***************************************************************************)
\* _send_notification: one NOTIFICATION log line, never raises.
SendNotification(sent, key) == [sent EXCEPT ![key] = @ + 1]

\* POST /events/todo of the notification consumer
NotificationHandleTodoEvent ==
    \E body \in Bodies(TodoEvents) :
        LET adm == Admit(body, notifKeys)
            key == KeyOf(body)
            sent == IF adm = "fresh" THEN SendNotification(notified, key)
                    ELSE notified
        IN  /\ sent[key] <= MaxRows
            /\ notified' = sent
            /\ notifKeys' = IF adm = "fresh" THEN MarkIfKeyed(key, notifKeys)
                            ELSE notifKeys
            /\ Record("notification_todo", body,
                      IF adm = "fresh" THEN "processed" ELSE adm, sent # notified)
            /\ UNCHANGED <<running, now, life, auditVars, recVars, remVars,
                           tasks, reminders, backendVars>>

RestartNotification ==
    /\ Restarted("notification")
    /\ notifKeys' = {}
    /\ UNCHANGED <<running, now, auditVars, notified, recVars, remVars, tasks,
                   reminders, backendVars>>

(***************************************************************************)
(* Recurring consumer: the schedule map.  _recurring_schedule is a dict,   *)
(* which keeps its keys in insertion order: a sequence of [id, at].        *)
(***************************************************************************)
Tracked(s) == {s[i].id : i \in DOMAIN s}

TriggerAt(s, id) == s[CHOOSE i \in DOMAIN s : s[i].id = id].at

\* s.setdefault(id, t): an existing key keeps its value.
UpsertKeepsOld(s, id, t) ==
    IF id \in {s[i].id : i \in DOMAIN s} THEN s
    ELSE Append(s, [id |-> id, at |-> t])

\* s[id] = t: an existing key keeps its place, a new key goes last.
Upsert(s, id, t) ==
    IF id \in Tracked(s)
    THEN [i \in DOMAIN s |-> IF s[i].id = id THEN [id |-> id, at |-> t] ELSE s[i]]
    ELSE Append(s, [id |-> id, at |-> t])

\* A pop that removes nothing.
PopKeeps(s, id) == s

\* s.pop(id, None)
Pop(s, id) == SelectSeq(s, LAMBDA e : e.id # id)

\* _register_recurring_task(task_id, rule), called at time t
RegisterRecurringTask(s, task_id, recurring_rule, t) ==
    LET next_trigger == ComputeNextTrigger(recurring_rule, t)
    IN  IF next_trigger # None THEN Upsert(s, task_id, next_trigger[1]) ELSE s

\* The domain part of the recurring consumer's handle_todo_event.  It raises
\* (AttributeError) when the payload is not a dict.  A ValueError of
\* int(entity_id) and a TypeError of the evaluator are caught around the
\* registration, which then does not happen.
\* A handler without the except clause around int(entity_id): the ValueError
\* reaches the handler's outer except clause.
RecurringTodoRaisesOnBadId(ev) ==
    \/ Get(ev, "payload", EmptyDict) = JsonNull
    \/ /\ Truthy(Get(Get(ev, "payload", EmptyDict), "recurring_rule", NullRule))
       /\ Get(ev, "event_type", "unknown") \in {"task_created", "task_updated"}
       /\ ~ParsesAsInt(Get(ev, "entity_id", "None"))

RecurringTodoRaises(ev) == Get(ev, "payload", EmptyDict) = JsonNull

\* A handler that registers on every event_type.
RecurringTodoScheduleAnyType(ev, s, t) ==
    LET payload == Get(ev, "payload", EmptyDict)
        recurring_rule == Get(payload, "recurring_rule", NullRule)
        entity_id == Get(ev, "entity_id", "None")
    IN  IF Truthy(recurring_rule)
             /\ ParsesAsInt(entity_id) /\ ~ComputeNextTriggerRaises(recurring_rule)
        THEN RegisterRecurringTask(s, IntOf(entity_id), recurring_rule, t)
        ELSE s

RecurringTodoSchedule(ev, s, t) ==
    LET event_type == Get(ev, "event_type", "unknown")
        payload == Get(ev, "payload", EmptyDict)
        recurring_rule == Get(payload, "recurring_rule", NullRule)
        entity_id == Get(ev, "entity_id", "None")
    IN  IF Truthy(recurring_rule) /\ event_type \in {"task_created", "task_updated"}
        THEN IF ParsesAsInt(entity_id) /\ ~ComputeNextTriggerRaises(recurring_rule)
             THEN RegisterRecurringTask(s, IntOf(entity_id), recurring_rule, t)
             ELSE s
        ELSE s

\* What handle_todo_event of the recurring consumer makes of a body: how the
\* delivery ends, the schedule and the keys it leaves.
RecurringTodoOutcome(body) ==
    LET adm == Admit(body, recKeys)
        ev == ExtractEventData(body)
        key == KeyOf(body)
        raises == adm = "fresh" /\ RecurringTodoRaises(ev)
        done == adm = "fresh" /\ ~raises
    IN  [outcome |-> IF done THEN "processed" ELSE IF raises THEN "raised" ELSE adm,
         schedule |-> IF done THEN RecurringTodoSchedule(ev, schedule, now)
                      ELSE schedule,
         keys |-> IF done THEN MarkIfKeyed(key, recKeys) ELSE recKeys]

\* POST /events/todo of the recurring consumer
RecurringHandleTodoEvent ==
    \E body \in Bodies(TodoEvents) :
        LET r == RecurringTodoOutcome(body)
        IN  /\ schedule' = r.schedule
            /\ recKeys' = r.keys
            /\ Record("recurring_todo", body, r.outcome, r.schedule # schedule)
            /\ UNCHANGED <<running, now, life, auditVars, notifVars, remVars,
                           ticks, tasks, reminders, backendVars>>

\* POST /events/recurring: logs the event and marks its key
RecurringHandleRecurringEvent ==
    \E body \in Bodies(OtherEvents) :
        LET adm == Admit(body, recKeys)
            key == KeyOf(body)
        IN  /\ recKeys' = IF adm = "fresh" THEN MarkIfKeyed(key, recKeys)
                          ELSE recKeys
            /\ Record("recurring_recurring", body,
                      IF adm = "fresh" THEN "processed" ELSE adm, FALSE)
            /\ UNCHANGED <<running, now, life, auditVars, notifVars, remVars,
                           schedule, ticks, tasks, reminders, backendVars>>

(***************************************************************************)
(* Reminder consumer: the event handler.                                   *)
(***************************************************************************)
\* _handle_reminder_scheduled reads payload.get("trigger_at"): it raises when
\* the payload is not a dict.  The other branches only log.
ReminderEventRaises(ev) ==
    /\ Get(ev, "event_type", "unknown") = "reminder_scheduled"
    /\ Get(ev, "payload", EmptyDict) = JsonNull

\* A handler that writes the cancellation it is told of.
ReminderHandleWritesCancel ==
    \E body \in Bodies(ReminderEvents) :
        LET adm == Admit(body, remKeys)
            ev == ExtractEventData(body)
            key == KeyOf(body)
            raises == adm = "fresh" /\ ReminderEventRaises(ev)
            done == adm = "fresh" /\ ~raises
            cancels == done /\ Get(ev, "event_type", "unknown") = "reminder_cancelled"
        IN  /\ remKeys' = IF done THEN MarkIfKeyed(key, remKeys) ELSE remKeys
            /\ reminders' = [i \in DOMAIN reminders |->
                                IF cancels /\ reminders[i].status = "pending"
                                THEN [reminders[i] EXCEPT !.status = "cancelled"]
                                ELSE reminders[i]]
            /\ Record("reminder_reminder", body,
                      IF done THEN "processed" ELSE IF raises THEN "raised" ELSE adm,
                      FALSE)
            /\ UNCHANGED <<running, now, life, auditVars, notifVars, recVars,
                           sweepSession, tasks, backendVars>>

\* POST /events/reminder
ReminderHandleReminderEvent ==
    \E body \in Bodies(ReminderEvents) :
        LET adm == Admit(body, remKeys)
            ev == ExtractEventData(body)
            key == KeyOf(body)
            raises == adm = "fresh" /\ ReminderEventRaises(ev)
            done == adm = "fresh" /\ ~raises
        IN  /\ remKeys' = IF done THEN MarkIfKeyed(key, remKeys) ELSE remKeys
            /\ Record("reminder_reminder", body,
                      IF done THEN "processed" ELSE IF raises THEN "raised" ELSE adm,
                      FALSE)
            /\ UNCHANGED <<running, now, life, auditVars, notifVars, recVars,
                           sweepSession, tasks, reminders, backendVars>>

RestartReminder ==
    /\ Restarted("reminder")
    /\ remKeys' = {}
    /\ sweepSession' = NoSession
    /\ UNCHANGED <<running, now, auditVars, notifVars, recVars, tasks,
                   reminders, backendVars>>

(***************************************************************************)
(* Recurring consumer: the sweep and the reconciliation scan.              *)
(***************************************************************************)
Absent == [absent |-> TRUE]

\* Every tracked id, due or not.
DueTaskIdsAll(s, t) == [i \in DOMAIN s |-> s[i].id]

\* A sweep that goes through the ids of the store, tracked or not.
DueTaskIdsOfStore(s, t) == <<1, 2>>

\* due_task_ids: the ids with trigger_at <= now, in dict order.
DueTaskIds(s, t) ==
    LET due == SelectSeq(s, LAMBDA e : e.at <= t)
    IN  [i \in DOMAIN due |-> due[i].id]

\* A loop that takes a reported entry off the schedule.
SweepOneOnce(r, task_id, store, t) ==
    LET template == store[task_id]
    IN  IF r.aborted THEN r
        ELSE IF template = Absent \/ ~Truthy(template)
        THEN [r EXCEPT !.schedule = Pop(@, task_id)]
        ELSE IF ComputeNextTriggerRaises(template)
        THEN [r EXCEPT !.aborted = TRUE]
        ELSE [schedule |-> Pop(r.schedule, task_id),
              spawned |-> r.spawned + 1,
              reported |-> r.reported \cup {task_id},
              aborted |-> FALSE]

\* A loop that counts the next trigger time from the old one.
SweepOneCatchesUp(r, task_id, store, t) ==
    LET template == store[task_id]
    IN  IF r.aborted THEN r
        ELSE IF template = Absent \/ ~Truthy(template)
        THEN [r EXCEPT !.schedule = Pop(@, task_id)]
        ELSE IF ComputeNextTriggerRaises(template)
        THEN [r EXCEPT !.aborted = TRUE]
        ELSE LET next_trigger ==
                     ComputeNextTrigger(template, TriggerAt(r.schedule, task_id))
             IN  [schedule |-> IF next_trigger # None
                               THEN Upsert(r.schedule, task_id, next_trigger[1])
                               ELSE r.schedule,
                  spawned |-> r.spawned + 1,
                  reported |-> r.reported \cup {task_id},
                  aborted |-> FALSE]

\* A loop that breaks where it should continue: it drops the entry of a
\* missing or ruleless template and leaves the rest of the due entries.
SweepOneBreaks(r, task_id, store, t) ==
    LET template == store[task_id]
    IN  IF r.aborted THEN r
        ELSE IF template = Absent \/ ~Truthy(template)
        THEN [r EXCEPT !.schedule = Pop(@, task_id), !.aborted = TRUE]
        ELSE IF ComputeNextTriggerRaises(template)
        THEN [r EXCEPT !.aborted = TRUE]
        ELSE LET next_trigger == ComputeNextTrigger(template, t)
             IN  [schedule |-> IF next_trigger # None
                               THEN Upsert(r.schedule, task_id, next_trigger[1])
                               ELSE r.schedule,
                  spawned |-> r.spawned + 1,
                  reported |-> r.reported \cup {task_id},
                  aborted |-> FALSE]

\* One turn of the loop over due_task_ids, for task_id at sweep time t.
\* r is [schedule, spawned, reported, aborted]; a TypeError of the evaluator
\* ends the loop as a store failure does.
SweepOne(r, task_id, store, t) ==
    LET template == store[task_id]
    IN  IF r.aborted THEN r
        ELSE IF template = Absent
        THEN [r EXCEPT !.schedule = Pop(@, task_id)]
        ELSE IF ~Truthy(template)
        THEN [r EXCEPT !.schedule = Pop(@, task_id)]
        ELSE IF ComputeNextTriggerRaises(template)
        THEN [r EXCEPT !.aborted = TRUE]
        ELSE LET next_trigger == ComputeNextTrigger(template, t)
             IN  [schedule |-> IF next_trigger # None
                               THEN Upsert(r.schedule, task_id, next_trigger[1])
                               ELSE r.schedule,
                  spawned |-> r.spawned + 1,
                  reported |-> r.reported \cup {task_id},
                  aborted |-> FALSE]

\* The first n turns of the loop.
RECURSIVE SweepLoop(_, _, _, _, _)
SweepLoop(r, due, n, store, t) ==
    IF n = 0 THEN r
    ELSE SweepOne(SweepLoop(r, due, n - 1, store, t), due[n], store, t)

\* A sweep that goes on through the loop after the store has failed.
CheckAndSpawnDueTasksGoesOn(s, store, t, answered) ==
    LET due == DueTaskIds(s, t)
    IN  SweepLoop([schedule |-> s, spawned |-> 0, reported |-> {},
                   aborted |-> FALSE],
                  due, Len(due), store, t)

\* _check_and_spawn_due_tasks() at time t.  The store answers the first
\* `answered` template queries and fails on the next one: the exception ends
\* the loop and is logged.  answered = Len(due): the store stays reachable.
CheckAndSpawnDueTasks(s, store, t, answered) ==
    LET due == DueTaskIds(s, t)
    IN  IF Len(due) = 0
        THEN [schedule |-> s, spawned |-> 0, reported |-> {}, aborted |-> FALSE]
        ELSE SweepLoop([schedule |-> s, spawned |-> 0, reported |-> {},
                        aborted |-> FALSE],
                       due, answered, store, t)

\* POST /cron-reminder-check of the recurring consumer
RecurringCronCheck ==
    /\ running = "recurring"
    /\ \E answered \in 0..Len(DueTaskIds(schedule, now)) :
          LET r == CheckAndSpawnDueTasks(schedule, tasks, now, answered)
          IN  /\ schedule' = r.schedule
              /\ last' = [name |-> "recurring_sweep", spawned |-> r.spawned,
                          reported |-> r.reported, answered |-> answered,
                          failed |-> answered < Len(DueTaskIds(schedule, now))
                                         \/ r.aborted,
                          deleted |-> IF last.name = "delete_task" /\ last.ahead
                                      THEN last.id ELSE 0,
                          response |-> "SUCCESS"]
    /\ UNCHANGED <<running, now, life, auditVars, notifVars, recKeys, ticks,
                   remVars, tasks, reminders, backendVars>>

\* The loop of the scan over the rows of SELECT ... WHERE recurring_rule IS NOT
\* NULL.  The loop's own test skips a row whose rule is null or empty, so the
\* rows may be taken to be all the tasks.  A TypeError of the evaluator ends
\* the scan: it is caught with the store's exceptions.
\* A scan without the test `task.id not in _recurring_schedule`.
RECURSIVE LoadLoopReregisters(_, _, _, _)
LoadLoopReregisters(s, rows, store, t) ==
    IF rows = << >> THEN s
    ELSE LET id == Head(rows)
             registers == Truthy(store[id])
         IN  IF registers /\ ComputeNextTriggerRaises(store[id]) THEN s
             ELSE LoadLoopReregisters(IF registers
                                      THEN RegisterRecurringTask(s, id, store[id], t)
                                      ELSE s,
                                      Tail(rows), store, t)

RECURSIVE LoadLoop(_, _, _, _)
LoadLoop(s, rows, store, t) ==
    IF rows = << >> THEN s
    ELSE LET id == Head(rows)
             registers == Truthy(store[id]) /\ id \notin Tracked(s)
         IN  IF registers /\ ComputeNextTriggerRaises(store[id]) THEN s
             ELSE LoadLoop(IF registers
                           THEN RegisterRecurringTask(s, id, store[id], t)
                           ELSE s,
                           Tail(rows), store, t)

\* The orders in which a query without ORDER BY may return the rows ids.
Orders(ids) ==
    {o \in UNION {[1..n -> ids] : n \in {Cardinality(ids)}} :
        \A i, j \in DOMAIN o : i # j => o[i] # o[j]}

\* A startup that does not scan.
LoadRecurringTasksSkipped(s, store, t, rows, storeOk) == s

\* _load_recurring_tasks_from_db() at time t, the rows coming in order `rows`;
\* a store failure is logged and the scan is skipped.
LoadRecurringTasksFromDb(s, store, t, rows, storeOk) ==
    IF storeOk THEN LoadLoop(s, rows, store, t) ELSE s

\* The recurring process is stopped and started again: both globals are empty,
\* then the startup hook runs the scan.
RestartRecurring ==
    /\ running = "recurring"
    /\ life < MaxRestarts
    /\ life' = life + 1
    /\ recKeys' = {}
    /\ \E storeOk \in BOOLEAN,
          rows \in Orders({id \in TaskIds : tasks[id] # Absent}) :
          /\ schedule' = LoadRecurringTasksFromDb(<< >>, tasks, now, rows, storeOk)
          /\ last' = [name |-> "restart", scanned |-> storeOk]
    /\ ticks' = NoTicks
    /\ UNCHANGED <<running, now, auditVars, notifVars, remVars, tasks,
                   reminders, backendVars>>

(***************************************************************************)
(* The backend's writes to the tasks table, as the consumers see them.     *)
(***************************************************************************)
\* The backend stores recurring_rule as it gets it: null, {}, a rule, and a
\* rule whose interval is null.
StoreRules == {NullRule, EmptyRule, Daily1, NullInterval("daily")}

\* create_task / update_task: the task exists with the given rule.
BackendPutTask ==
    /\ \E id \in TaskIds, rule \in StoreRules :
          /\ tasks[id] # rule
          /\ tasks' = [tasks EXCEPT ![id] = rule]
    /\ last' = [name |-> "put_task"]
    /\ UNCHANGED <<running, now, life, auditVars, notifVars, recVars, remVars,
                   reminders, backendVars>>

\* delete_task.  `ahead` says that the task is tracked by the recurring
\* consumer with its trigger time still to come.
BackendDeleteTask ==
    /\ \E id \in TaskIds :
          /\ tasks[id] # Absent
          /\ tasks' = [tasks EXCEPT ![id] = Absent]
          /\ last' = [name |-> "delete_task", id |-> id,
                      ahead |-> id \in Tracked(schedule)
                                    /\ TriggerAt(schedule, id) > now]
    /\ UNCHANGED <<running, now, life, auditVars, notifVars, recVars, remVars,
                   reminders, backendVars>>

\* The clock moves on by a day.  Nothing is delivered or called meanwhile: a
\* delivery or a deletion stays the latest operation.
AdvanceTime ==
    /\ now < MaxNow
    /\ now' = now + 1
    /\ last' = IF IsDelivery(last) \/ last.name = "delete_task" THEN last
               ELSE [name |-> "tick"]
    /\ UNCHANGED <<running, life, auditVars, notifVars, recVars, remVars,
                   tasks, reminders, backendVars>>

(***************************************************************************)
(* Reminders: the reminder consumer's sweep and the backend's endpoints.   *)
(* A reminder's id is its place in the table.                              *)
(***************************************************************************)
\* The SELECT without its status filter.
DueRemindersAnyStatus(rems, t) ==
    {i \in DOMAIN rems : rems[i].trigger_at <= t}

\* SELECT ... WHERE status = 'pending' AND trigger_at <= now
DueReminders(rems, t) ==
    {i \in DOMAIN rems : rems[i].status = "pending" /\ rems[i].trigger_at <= t}

\* A commit that stores the first of the changed rows and loses the others.
FlushFirst(rems, ids, status) ==
    [i \in DOMAIN rems |->
        IF i \in ids /\ \A j \in ids : i <= j
        THEN [rems[i] EXCEPT !.status = status] ELSE rems[i]]

\* A commit that stores nothing.
FlushLost(rems, ids, status) == rems

\* The flush of a session at commit: UPDATE reminders SET status = ? WHERE id = ?
\* for each loaded row whose status the session changed.
Flush(rems, ids, status) ==
    [i \in DOMAIN rems |-> IF i \in ids THEN [rems[i] EXCEPT !.status = status]
                           ELSE rems[i]]

\* _check_and_fire_due_reminders() at time t with nothing interleaved.  A
\* failure of the SELECT or of the commit is logged; fired_count is returned
\* as it stands.
CheckAndFireDueReminders(rems, t, selectOk, commitOk) ==
    IF ~selectOk THEN [reminders |-> rems, fired |-> 0, selected |-> {}]
    ELSE LET due == DueReminders(rems, t)
         IN  [reminders |-> IF due # {} /\ commitOk
                            THEN Flush(rems, due, "triggered") ELSE rems,
              fired |-> Cardinality(due),
              selected |-> due]

\* The record of a reminder sweep.  `prev` says whether the operation before
\* it was a sweep too, and how that one's store accesses went; `changed`,
\* whether this one changed a row.
SweepRecord(fired, selected, storeOk, rems) ==
    [name |-> "reminder_sweep", fired |-> fired, selected |-> selected,
     storeOk |-> storeOk, changed |-> rems # reminders,
     prev |-> IF last.name # "reminder_sweep" THEN "other"
              ELSE IF last.storeOk THEN "ok" ELSE "failed",
     response |-> "SUCCESS"]

\* POST /cron-reminder-check of the reminder consumer, nothing interleaved
ReminderCronCheck ==
    /\ running = "reminder"
    /\ sweepSession = NoSession
    /\ \E selectOk, commitOk \in BOOLEAN :
          LET r == CheckAndFireDueReminders(reminders, now, selectOk, commitOk)
          IN  /\ reminders' = r.reminders
              /\ last' = SweepRecord(r.fired, r.selected,
                                      selectOk /\ (commitOk \/ r.selected = {}),
                                      r.reminders)
    /\ UNCHANGED <<running, now, life, auditVars, notifVars, recVars, remVars,
                   tasks, backendVars>>

\* create_reminder: a new pending row
BackendCreateReminder ==
    /\ Len(reminders) < MaxReminders
    /\ \E task_id \in TaskIds, trigger_at \in 0..MaxNow :
          reminders' = Append(reminders, [task_id |-> task_id,
                                          trigger_at |-> trigger_at,
                                          status |-> "pending"])
    /\ last' = [name |-> "create_reminder"]
    /\ UNCHANGED <<running, now, life, auditVars, notifVars, recVars, remVars,
                   tasks, backendVars>>

\* SELECT ... WHERE task_id = ? AND status = 'pending': .first() returns one
\* of the rows, the query has no ORDER BY.
PendingOf(rems, task_id) ==
    {i \in DOMAIN rems : rems[i].task_id = task_id /\ rems[i].status = "pending"}

\* cancel_reminder, nothing interleaved
BackendCancelReminder ==
    /\ cancelSession = NoSession
    /\ \E task_id \in TaskIds :
          IF PendingOf(reminders, task_id) = {}
          THEN /\ last' = [name |-> "cancel_reminder", status |-> 404, row |-> 0]
               /\ UNCHANGED reminders
          ELSE \E i \in PendingOf(reminders, task_id) :
                  /\ reminders' = Flush(reminders, {i}, "cancelled")
                  /\ last' = [name |-> "cancel_reminder", status |-> 200, row |-> i]
    /\ UNCHANGED <<running, now, life, auditVars, notifVars, recVars, remVars,
                   tasks, backendVars>>

(***************************************************************************)
(* The same two operations step by step: each is a SELECT in a session of  *)
(* its own and, later, the commit that flushes the session's changes.  The *)
(* backend and the reminder consumer are different processes on one store. *)
(***************************************************************************)
\* The sweep's SELECT; with nothing due it returns 0 without a commit.
SweepSelect ==
    /\ running = "reminder"
    /\ sweepSession = NoSession
    /\ LET due == DueReminders(reminders, now)
       IN  IF due = {}
           THEN /\ last' = SweepRecord(0, {}, TRUE, reminders)
                /\ UNCHANGED sweepSession
           ELSE /\ sweepSession' = [open |-> TRUE, loaded |-> due]
                /\ last' = [name |-> "sweep_select"]
    /\ UNCHANGED <<running, now, life, auditVars, notifVars, recVars, remKeys,
                   tasks, reminders, backendVars>>

\* The sweep's commit.
SweepCommit ==
    /\ sweepSession # NoSession
    /\ reminders' = Flush(reminders, sweepSession.loaded, "triggered")
    /\ sweepSession' = NoSession
    /\ last' = SweepRecord(Cardinality(sweepSession.loaded),
                            sweepSession.loaded, TRUE, reminders')
    /\ UNCHANGED <<running, now, life, auditVars, notifVars, recVars, remKeys,
                   tasks, backendVars>>

\* cancel_reminder's SELECT; without a pending row it answers 404.
CancelSelect ==
    /\ cancelSession = NoSession
    /\ \E task_id \in TaskIds :
          IF PendingOf(reminders, task_id) = {}
          THEN /\ last' = [name |-> "cancel_reminder", status |-> 404, row |-> 0]
               /\ UNCHANGED cancelSession
          ELSE \E i \in PendingOf(reminders, task_id) :
                  /\ cancelSession' = [open |-> TRUE, loaded |-> i]
                  /\ last' = [name |-> "cancel_select"]
    /\ UNCHANGED <<running, now, life, auditVars, notifVars, recVars, remVars,
                   tasks, reminders, bus>>

\* cancel_reminder's commit.
CancelCommit ==
    /\ cancelSession # NoSession
    /\ reminders' = Flush(reminders, {cancelSession.loaded}, "cancelled")
    /\ cancelSession' = NoSession
    /\ last' = [name |-> "cancel_reminder", status |-> 200,
              row |-> cancelSession.loaded]
    /\ UNCHANGED <<running, now, life, auditVars, notifVars, recVars, remVars,
                   tasks, bus>>

(***************************************************************************)
(* Specifications.                                                         *)
(***************************************************************************)
\* The state after a service's start against an empty store.
StartedWith(services, rems) ==
    /\ running \in services
    /\ now = 0
    /\ life = 0
    /\ auditKeys = {}
    /\ auditRows = [k \in AllKeys |-> 0]
    /\ auditWritten = [k \in AllKeys |-> 0]
    /\ notifKeys = {}
    /\ notified = [k \in AllKeys |-> 0]
    /\ recKeys = {}
    /\ remKeys = {}
    /\ schedule = << >>
    /\ ticks = NoTicks
    /\ tasks = [id \in TaskIds |-> Absent]
    /\ reminders = rems
    /\ sweepSession = NoSession
    /\ cancelSession = NoSession
    /\ bus = NoEvents

Started(services) == StartedWith(services, << >>)

InitOf(services) ==
    /\ Started(services)
    /\ last = [name |-> "start"]

\* Event delivery to each of the four consumer services.
Init == InitOf(Consumers)

Next ==
    \/ AuditHandleTodoEvent
    \/ AuditHandleAiEvent
    \/ AuditHandleAuditEvent
    \/ RestartAudit
    \/ NotificationHandleTodoEvent
    \/ RestartNotification
    \/ RecurringHandleTodoEvent
    \/ RecurringHandleRecurringEvent
    \/ RestartRecurring
    \/ ReminderHandleReminderEvent
    \/ RestartReminder
    \/ AdvanceTime

Spec == Init /\ [][Next]_vars

\* The recurring consumer with the backend writing the tasks table.
InitRecurring == InitOf({"recurring"})

NextRecurring ==
    \/ RecurringHandleTodoEvent
    \/ RecurringCronCheck
    \/ RestartRecurring
    \/ BackendPutTask
    \/ BackendDeleteTask
    \/ AdvanceTime

SpecRecurring == InitRecurring /\ [][NextRecurring]_vars

\* The reminders table: the reminder consumer's sweep and the backend's
\* reminder endpoints, each operation running to its end before the next
\* starts.  (The consumer's event handler does not touch the table.)
InitReminder == InitOf({"reminder"})

NextReminder ==
    \/ ReminderCronCheck
    \/ BackendCreateReminder
    \/ BackendCancelReminder
    \/ AdvanceTime

SpecReminder == InitReminder /\ [][NextReminder]_vars

\* The sweep and cancel_reminder interleaved at their store accesses.
NextRace ==
    \/ SweepSelect
    \/ SweepCommit
    \/ CancelSelect
    \/ CancelCommit
    \/ BackendCreateReminder
    \/ AdvanceTime

SpecRace == InitReminder /\ [][NextRace]_vars


(***************************************************************************)
(* The Rule Evaluator on its own: a rule and a from_time are drawn, then   *)
(* _compute_next_trigger is applied to them.                               *)
(***************************************************************************)
Frequencies == {"daily", "weekly", "monthly", "yearly", "custom"}

RuleInputs ==
    {[frequency |-> f, interval |-> n] : f \in Frequencies, n \in -1..MaxInterval}
        \cup {[frequency |-> f] : f \in Frequencies}
        \cup {[interval |-> n] : n \in 1..MaxInterval}
        \cup {NullInterval(f) : f \in Frequencies}
        \cup {NullRule, EmptyRule}

InitRule ==
    /\ Started({"evaluator"})
    /\ last \in {[name |-> "rule_input", rule |-> r, from_time |-> t] :
                    r \in RuleInputs, t \in 0..MaxFrom}

EvaluateRule ==
    /\ last.name = "rule_input"
    /\ last' = [name |-> "compute_next_trigger", rule |-> last.rule,
                from_time |-> last.from_time,
                raised |-> ComputeNextTriggerRaises(last.rule),
                warned |-> ComputeNextTriggerWarns(last.rule),
                result |-> IF ComputeNextTriggerRaises(last.rule) THEN None
                           ELSE ComputeNextTrigger(last.rule, last.from_time)]
    /\ UNCHANGED <<running, now, life, auditVars, notifVars, recVars, remVars,
                   tasks, reminders, backendVars>>

NextRule == EvaluateRule

SpecRule == InitRule /\ [][NextRule]_vars

(***************************************************************************)
(* One delivery step by step: decode, duplicate check, domain operation,   *)
(* mark.  One handler of each consumer; a delivery runs to its end before  *)
(* the next one starts.  While a delivery is under way `last` holds it,    *)
(* with the step it has reached.                                           *)
(***************************************************************************)
StepHandlers ==
    {"audit_todo", "notification_todo", "recurring_todo", "reminder_reminder"}

BodiesOf(h) ==
    IF h = "reminder_reminder" THEN Bodies(ReminderEvents) ELSE Bodies(TodoEvents)

\* _processed_keys of the running process
ProcessedKeys ==
    CASE running = "audit" -> auditKeys
      [] running = "notification" -> notifKeys
      [] running = "recurring" -> recKeys
      [] OTHER -> remKeys

InFlight(h, body, pc, effect) ==
    [name |-> "in_flight", handler |-> h, body |-> body, pc |-> pc,
     effect |-> effect]

\* body = await request.json(); an exception ends the delivery
StepDecode ==
    /\ last.name # "in_flight"
    /\ \E h \in StepHandlers :
          /\ ConsumerOf(h) = running
          /\ \E body \in BodiesOf(h) :
                last' = IF JsonRaises(body) THEN Delivery(h, body, "raised", FALSE)
                        ELSE InFlight(h, body, "decoded", FALSE)
    /\ UNCHANGED <<running, now, life, auditVars, notifVars, recVars, remVars,
                   tasks, reminders, backendVars>>

\* if idempotency_key and _is_duplicate(idempotency_key): return SUCCESS
StepCheck ==
    /\ last.name = "in_flight"
    /\ last.pc = "decoded"
    /\ LET key == KeyOf(last.body)
       IN  last' = IF key # NoKey /\ IsDuplicate(key, ProcessedKeys)
                   THEN Delivery(last.handler, last.body, "duplicate", FALSE)
                   ELSE [last EXCEPT !.pc = "checked"]
    /\ UNCHANGED <<running, now, life, auditVars, notifVars, recVars, remVars,
                   tasks, reminders, backendVars>>

\* The domain operation of the handler: it returns, or it raises and the
\* handler's except clause ends the delivery.
StepDomain ==
    /\ last.name = "in_flight"
    /\ last.pc = "checked"
    /\ LET ev == ExtractEventData(last.body)
           key == KeyOf(last.body)
           done(effect) == [last EXCEPT !.pc = "done", !.effect = effect]
           raised == Delivery(last.handler, last.body, "raised", FALSE)
       IN  \/ /\ last.handler = "audit_todo"
              /\ auditRows[key] <= MaxRows
              /\ \E storeOk \in BOOLEAN :
                    /\ auditRows' = PersistAuditRecord(auditRows, key, storeOk)
                    /\ auditWritten' = PersistAuditRecord(auditWritten, key, storeOk)
                    /\ last' = done(storeOk)
              /\ UNCHANGED <<auditKeys, notifVars, recVars>>
           \/ /\ last.handler = "notification_todo"
              /\ notified[key] <= MaxRows
              /\ notified' = SendNotification(notified, key)
              /\ last' = done(TRUE)
              /\ UNCHANGED <<auditVars, notifKeys, recVars>>
           \/ /\ last.handler = "recurring_todo"
              /\ IF RecurringTodoRaises(ev)
                 THEN last' = raised /\ UNCHANGED schedule
                 ELSE /\ schedule' = RecurringTodoSchedule(ev, schedule, now)
                      /\ last' = done(schedule' # schedule)
              /\ UNCHANGED <<auditVars, notifVars, recKeys, ticks>>
           \/ /\ last.handler = "reminder_reminder"
              /\ last' = IF ReminderEventRaises(ev) THEN raised ELSE done(FALSE)
              /\ UNCHANGED <<auditVars, notifVars, recVars>>
    /\ UNCHANGED <<running, now, life, remVars, tasks, reminders, backendVars>>

\* if idempotency_key: _mark_processed(idempotency_key); return SUCCESS
StepMark ==
    /\ last.name = "in_flight"
    /\ last.pc = "done"
    /\ LET key == KeyOf(last.body)
           marked(c, keys) == IF running = c THEN MarkIfKeyed(key, keys) ELSE keys
       IN  /\ auditKeys' = marked("audit", auditKeys)
           /\ notifKeys' = marked("notification", notifKeys)
           /\ recKeys' = marked("recurring", recKeys)
           /\ remKeys' = marked("reminder", remKeys)
    /\ last' = Delivery(last.handler, last.body, "processed", last.effect)
    /\ UNCHANGED <<running, now, life, auditRows, auditWritten, notified,
                   schedule, ticks, sweepSession, tasks, reminders, backendVars>>

NextSteps ==
    \/ StepDecode
    \/ StepCheck
    \/ StepDomain
    \/ StepMark

SpecSteps == Init /\ [][NextSteps]_vars

(***************************************************************************)
(* _load_recurring_tasks_from_db() as a function of the schedule and the   *)
(* store it is called on: any store, and any schedule of at most one entry *)
(* per task.                                                               *)
(***************************************************************************)
ScanRules == StoreRules \cup {Weekly2, Absent}

\* The dicts over ids with trigger times 0 or 1, in either order of insertion
ScanSchedules ==
    UNION {{[i \in DOMAIN o |-> [id |-> o[i], at |-> at[o[i]]]] :
               o \in Orders(ids), at \in [ids -> 0..1]} :
           ids \in SUBSET TaskIds}

InitReconcile ==
    /\ Started({"recurring"})
    /\ last = [name |-> "scan_input"]

\* The store and the schedule the scan is called on.
ReconcileInput ==
    /\ last.name = "scan_input"
    /\ tasks' \in [TaskIds -> ScanRules]
    /\ schedule' \in ScanSchedules
    /\ last' = [name |-> "scan_ready"]
    /\ UNCHANGED <<running, now, life, auditVars, notifVars, recKeys, ticks,
                   remVars, reminders, backendVars>>

\* One call of _load_recurring_tasks_from_db()
Reconcile ==
    /\ last.name # "scan_input"
    /\ \E storeOk \in BOOLEAN,
          rows \in Orders({id \in TaskIds : tasks[id] # Absent}) :
          /\ schedule' = LoadRecurringTasksFromDb(schedule, tasks, now, rows, storeOk)
          /\ last' = [name |-> "reconcile", before |-> schedule,
                      storeOk |-> storeOk, rows |-> rows]
    /\ UNCHANGED <<running, now, life, auditVars, notifVars, recKeys, ticks,
                   remVars, tasks, reminders, backendVars>>

NextReconcile ==
    \/ ReconcileInput
    \/ Reconcile
    \/ AdvanceTime

SpecReconcile == InitReconcile /\ [][NextReconcile]_vars

(***************************************************************************)
(* _check_and_spawn_due_tasks() as a function of the schedule and the      *)
(* store it is called on: the rules the store may hold, with intervals     *)
(* below 1, and any schedule of at most one entry per task.                *)
(***************************************************************************)
Rule(f, n) == [frequency |-> f, interval |-> n]

SweepRules ==
    {Absent, NullRule, Weekly2}
        \cup {Rule(f, n) : f \in KnownFrequencies, n \in -1..1}

InitSweep ==
    /\ Started({"recurring"})
    /\ last = [name |-> "sweep_input"]

\* The store and the schedule the sweeps are called on.
SweepInput ==
    /\ last.name = "sweep_input"
    /\ tasks' \in [TaskIds -> SweepRules]
    /\ schedule' \in ScanSchedules
    /\ last' = [name |-> "sweep_ready"]
    /\ UNCHANGED <<running, now, life, auditVars, notifVars, recKeys, ticks,
                   remVars, reminders, backendVars>>

\* One call of the cron handler, the input being there
SweepCall ==
    /\ last.name # "sweep_input"
    /\ RecurringCronCheck

NextSweep ==
    \/ SweepInput
    \/ SweepCall
    \/ AdvanceTime

SpecSweep == InitSweep /\ [][NextSweep]_vars

(***************************************************************************)
(* The sweeps of one recurring process over unbounded time.  Time is       *)
(* counted from the present day, which stays day 0: a day that passes      *)
(* moves every trigger time one day nearer.  The sweep reads a trigger     *)
(* time only to compare it with the present, so a trigger time more than   *)
(* MaxLate days past is kept at MaxLate days past.  Task 1 is tracked and  *)
(* its template keeps a rule with an interval of 1 or more; the store      *)
(* stays reachable, the process is not restarted and handles no event.     *)
(***************************************************************************)
PositiveRules == {Daily1, Weekly2}

\* What the store may hold for the other task: nothing, no rule, a daily rule,
\* a rule with interval 0.
LiveRules == {Absent, NullRule, Daily1, Rule("daily", 0)}

InitLive ==
    /\ Started({"recurring"})
    /\ last = [name |-> "live_input"]

\* The store and the schedule at the start
LiveInput ==
    /\ last.name = "live_input"
    /\ tasks' \in {t \in [TaskIds -> PositiveRules \cup LiveRules] :
                      t[1] \in PositiveRules}
    /\ schedule' \in {sc \in ScanSchedules : 1 \in Tracked(sc)}
    /\ last' = [name |-> "live_ready"]
    /\ UNCHANGED <<running, now, life, auditVars, notifVars, recKeys, ticks,
                   remVars, reminders, backendVars>>

\* A day passes.
PassDay ==
    /\ last.name # "live_input"
    /\ schedule' = [i \in DOMAIN schedule |->
                       [schedule[i] EXCEPT
                           !.at = IF @ - 1 < now - MaxLate THEN now - MaxLate
                                  ELSE @ - 1]]
    /\ last' = [name |-> "tick"]
    /\ UNCHANGED <<running, now, life, auditVars, notifVars, recKeys, ticks,
                   remVars, tasks, reminders, backendVars>>

\* POST /cron-reminder-check, the store answering every query
SweepReachable ==
    /\ last.name # "live_input"
    /\ RecurringCronCheck
    /\ last'.answered = Len(DueTaskIds(schedule, now))

\* create_task / update_task / delete_task: task 1 keeps a rule of
\* PositiveRules, task 2 gets another rule or is deleted.
LivePutTask ==
    /\ last.name # "live_input"
    /\ \E id \in TaskIds, rule \in PositiveRules \cup LiveRules :
          /\ id = 1 => rule \in PositiveRules
          /\ tasks[id] # rule
          /\ tasks' = [tasks EXCEPT ![id] = rule]
    /\ last' = [name |-> "put_task"]
    /\ UNCHANGED <<running, now, life, auditVars, notifVars, recVars, remVars,
                   reminders, backendVars>>

NextLive ==
    \/ LiveInput
    \/ PassDay
    \/ SweepReachable
    \/ LivePutTask

\* Clock ticks keep arriving and time keeps advancing.
SpecLive ==
    /\ InitLive
    /\ [][NextLive]_vars
    /\ WF_vars(LiveInput)
    /\ WF_vars(PassDay)
    /\ WF_vars(SweepReachable)

(***************************************************************************)
(* The cron handler of the recurring consumer step by step.  The handler   *)
(* is a coroutine without an await and the sweep is an ordinary function,   *)
(* so the event loop of the process runs a request from its first line to  *)
(* its return before it starts another.  The store, another process, may   *)
(* change between two turns of the loop.                                   *)
(***************************************************************************)
\* A loop that would start a request while another is in its sweep.
LoopFreeAlways == TRUE

\* The event loop is not inside a sweep.
LoopFree == \A q \in Requests : ticks[q].pc # "running"

Returned(spawned, reported) ==
    [pc |-> "returned", spawned |-> spawned, reported |-> reported,
     response |-> "SUCCESS"]

\* due_task_ids, each with the next_trigger_at that made it due
DuePairs(s, t) ==
    LET due == DueTaskIds(s, t)
    IN  [i \in 1..Len(due) |-> <<due[i], TriggerAt(s, due[i])>>]

\* The binding posts to /cron-reminder-check; the server queues the request.
TickArrive(q) ==
    /\ running = "recurring"
    /\ ticks[q].pc \in {"idle", "returned"}
    /\ ticks' = [ticks EXCEPT ![q] = [pc |-> "accepted"]]
    /\ last' = [name |-> "cron_request", request |-> q, step |-> "arrive"]
    /\ UNCHANGED <<running, now, life, auditVars, notifVars, recKeys, schedule,
                   remVars, tasks, reminders, backendVars>>

\* The loop starts the handler: now, spawned = 0, due_task_ids, and the early
\* return when nothing is due.
TickStart(q) ==
    /\ running = "recurring"
    /\ ticks[q].pc = "accepted"
    /\ LoopFree
    /\ LET due == DuePairs(schedule, now)
       IN  ticks' = [ticks EXCEPT ![q] =
                        IF Len(due) = 0 THEN Returned(0, {})
                        ELSE [pc |-> "running", t |-> now, due |-> due,
                              idx |-> 1, spawned |-> 0, reported |-> {}]]
    /\ last' = [name |-> "cron_request", request |-> q, step |-> "start"]
    /\ UNCHANGED <<running, now, life, auditVars, notifVars, recKeys, schedule,
                   remVars, tasks, reminders, backendVars>>

\* One turn of the loop over due_task_ids; a store failure or an exception of
\* the rule evaluator ends the loop, and the handler returns.
TickTurn(q) ==
    /\ running = "recurring"
    /\ ticks[q].pc = "running"
    /\ \E storeOk \in BOOLEAN :
          LET tk == ticks[q]
              pair == tk.due[tk.idx]
              r == SweepOne([schedule |-> schedule, spawned |-> tk.spawned,
                             reported |-> {}, aborted |-> FALSE],
                            pair[1], tasks, tk.t)
              reported == IF pair[1] \in r.reported
                          THEN tk.reported \cup {pair} ELSE tk.reported
          IN  IF ~storeOk \/ r.aborted
              THEN /\ ticks' = [ticks EXCEPT
                                   ![q] = Returned(tk.spawned, tk.reported)]
                   /\ UNCHANGED schedule
              ELSE /\ schedule' = r.schedule
                   /\ ticks' = [ticks EXCEPT ![q] =
                                   IF tk.idx < Len(tk.due)
                                   THEN [tk EXCEPT !.idx = @ + 1,
                                                   !.spawned = r.spawned,
                                                   !.reported = reported]
                                   ELSE Returned(r.spawned, reported)]
    /\ last' = [name |-> "cron_request", request |-> q, step |-> "turn"]
    /\ UNCHANGED <<running, now, life, auditVars, notifVars, recKeys, remVars,
                   tasks, reminders, backendVars>>

CronArrive == \E q \in Requests : TickArrive(q)
CronStart == \E q \in Requests : TickStart(q)
CronTurn == \E q \in Requests : TickTurn(q)

NextTicks ==
    \/ CronArrive
    \/ CronStart
    \/ CronTurn
    \/ RestartRecurring
    \/ BackendPutTask
    \/ BackendDeleteTask
    \/ AdvanceTime

SpecTicks == InitRecurring /\ [][NextTicks]_vars

(***************************************************************************)
(* Two deliveries held by one process at once.  A handler is a coroutine   *)
(* that awaits request.json() and nothing else: the event loop runs it     *)
(* from the point where the body has been read to its return before it     *)
(* resumes another.  The todo handlers of the audit and of the recurring   *)
(* consumer.                                                               *)
(***************************************************************************)
\* A handler that would also await between its duplicate check and its
\* domain operation.
SuspendsAfterCheck(pc) == pc \in {"reading", "checked"}

\* The await expressions of a handler: body = await request.json().
Suspends(pc) == pc = "reading"

OverlapHandlers == {"audit_todo", "recurring_todo"}

\* The requests whose handler has started and not returned.
Held == {x \in Requests : ticks[x].pc \in {"reading", "checked"}}

\* The requests that were held while request q was.
Met(q) == IF ticks[q].pc = "idle" THEN {} ELSE ticks[q].met

\* The handler's return: `ran` says that it went through its domain
\* operation.
Finished(tk, outcome, ran) ==
    [pc |-> "returned", handler |-> tk.handler, body |-> tk.body,
     met |-> tk.met, outcome |-> outcome, ran |-> ran,
     response |-> HandlerResponse(outcome)]

\* A delivery arrives and its handler starts: it suspends at
\* await request.json().  A request's place is taken again once the
\* deliveries held together with it have returned.
DeliveryArrive(q) ==
    /\ ticks[q].pc \in {"idle", "returned"}
    /\ \A x \in Held : q \notin Met(x) /\ x \notin Met(q)
    /\ \E h \in OverlapHandlers, body \in Bodies(TodoEvents) :
          /\ ConsumerOf(h) = running
          /\ ticks' = [ticks EXCEPT ![q] = [pc |-> "reading", handler |-> h,
                                            body |-> body,
                                            met |-> Held \ {q}]]
    /\ last' = [name |-> "delivery_request", request |-> q, step |-> "arrive"]
    /\ UNCHANGED <<running, now, life, auditVars, notifVars, recKeys, schedule,
                   remVars, tasks, reminders, backendVars>>

\* The loop resumes the handler, which runs to its next await or to its
\* return: decode, duplicate check, domain operation, mark.
DeliveryTurn(q) ==
    /\ ticks[q].pc \in {"reading", "checked"}
    /\ \E storeOk \in BOOLEAN :
          LET tk == ticks[q]
              ev == ExtractEventData(tk.body)
              key == KeyOf(tk.body)
              adm == IF tk.pc = "reading" THEN Admit(tk.body, ProcessedKeys)
                     ELSE "fresh"
              pause == tk.pc = "reading" /\ adm = "fresh" /\ Suspends("checked")
              raises == tk.handler = "recurring_todo" /\ RecurringTodoRaises(ev)
              done == adm = "fresh" /\ ~pause /\ ~raises
              outcome == IF done THEN "processed"
                         ELSE IF adm = "fresh" THEN "raised" ELSE adm
          IN  /\ ticks' = [ticks EXCEPT ![q] =
                              IF pause THEN [tk EXCEPT !.pc = "checked"]
                              ELSE Finished(tk, outcome, done)]
              /\ IF done /\ tk.handler = "audit_todo"
                 THEN /\ auditRows[key] <= MaxRows
                      /\ auditRows' = PersistAuditRecord(auditRows, key, storeOk)
                      /\ auditWritten' = PersistAuditRecord(auditWritten, key,
                                                            storeOk)
                      /\ auditKeys' = MarkIfKeyed(key, auditKeys)
                 ELSE UNCHANGED auditVars
              /\ IF done /\ tk.handler = "recurring_todo"
                 THEN /\ schedule' = RecurringTodoSchedule(ev, schedule, now)
                      /\ recKeys' = MarkIfKeyed(key, recKeys)
                 ELSE UNCHANGED <<schedule, recKeys>>
    /\ last' = [name |-> "delivery_request", request |-> q, step |-> "turn"]
    /\ UNCHANGED <<running, now, life, notifVars, remVars, tasks, reminders,
                   backendVars>>

OverlapArrive == \E q \in Requests : DeliveryArrive(q)
OverlapTurn == \E q \in Requests : DeliveryTurn(q)

InitOverlap == InitOf({"audit", "recurring"})

NextOverlap ==
    \/ OverlapArrive
    \/ OverlapTurn

SpecOverlap == InitOverlap /\ [][NextOverlap]_vars

(***************************************************************************)
(* The event handlers of the recurring and the reminder consumer next to   *)
(* the state they could touch: the schedule and the reminders table.       *)
(***************************************************************************)
\* Reminders tables the backend and earlier sweeps have left.
StoredReminders ==
    {<< >>,
     <<[task_id |-> 1, trigger_at |-> 1, status |-> "pending"]>>,
     <<[task_id |-> 1, trigger_at |-> 0, status |-> "triggered"],
       [task_id |-> 2, trigger_at |-> 1, status |-> "pending"]>>,
     <<[task_id |-> 2, trigger_at |-> 0, status |-> "cancelled"],
       [task_id |-> 1, trigger_at |-> 0, status |-> "pending"]>>}

InitEvents ==
    /\ \E rems \in StoredReminders : StartedWith({"recurring", "reminder"}, rems)
    /\ last = [name |-> "start"]

NextEvents ==
    \/ RecurringHandleTodoEvent
    \/ ReminderHandleReminderEvent
    \/ ReminderCronCheck
    \/ AdvanceTime

SpecEvents == InitEvents /\ [][NextEvents]_vars

(***************************************************************************)
(* The backend: the REST endpoints, the create_recurring tool and the      *)
(* publishing of events.  An endpoint is a coroutine without an await: it  *)
(* commits, builds its event and schedules the publish on the loop, which  *)
(* runs it after the endpoint has returned.                                *)
(***************************************************************************)
\* The values of uuid4(), named in the order in which they are drawn.
UuidNames == <<"u1", "u2", "u3", "u4", "u5">>

\* A generator that returns the same value again.
Uuid4Reuses(drawn) == UuidNames[1]

\* idempotency_key: default_factory = str(uuid.uuid4()), a value not drawn
\* before.
Uuid4(drawn) == UuidNames[Cardinality(drawn) + 1]

\* The backend emits MaxEvents events at most.
MayEmit(b) == Cardinality(b.keys) < MaxEvents

\* str(task.id), str(reminder.id)
IdNames == <<"1", "2", "3", "4">>
Str(id) == IdNames[id]

\* _fire_event(publish_event(topic, event)): loop.create_task(...).  The
\* task runs after the endpoint has returned its response.
FireEvent(b, topic, ev, response) ==
    [b EXCEPT !.scheduled = @ \cup {[topic |-> topic, event |-> ev,
                                     response |-> response]},
              !.keys = @ \cup {ev.idempotency_key}]

\* An endpoint that fires its event before it commits.
FireThenCommit(b, commitOk, topic, ev, response) ==
    FireEvent(b, topic, ev, response)

\* db.commit(), then create_task_event(...) and _fire_event(...): a commit
\* that raises ends the request before the event is built.
CommitThenFire(b, commitOk, topic, ev, response) ==
    IF commitOk THEN FireEvent(b, topic, ev, response) ELSE b

\* The rules a request body may carry: recurring_rule is free JSON.
RestRules == {NullRule, Daily1, Weekly2}

\* What an endpoint leaves in `last`.
Response(name, id, commitOk, okStatus, before, after) ==
    [name |-> name, id |-> id, committed |-> commitOk,
     status |-> IF commitOk THEN okStatus ELSE 500,
     fired |-> {s.event : s \in after.scheduled \ before.scheduled}]

\* POST /{user_id}/tasks
RestCreateTask ==
    /\ MayEmit(bus)
    /\ \E id \in TaskIds, rule \in RestRules, commitOk \in BOOLEAN :
          /\ tasks[id] = Absent
          /\ tasks' = IF commitOk THEN [tasks EXCEPT ![id] = rule] ELSE tasks
          /\ bus' = CommitThenFire(bus, commitOk, "todo.events",
                                   Event(Uuid4(bus.keys), "task_created",
                                         Str(id), rule), 201)
          /\ last' = Response("create_task", id, commitOk, 201, bus, bus')
    /\ UNCHANGED <<running, now, life, auditVars, notifVars, recVars, remVars,
                   reminders, cancelSession>>

\* PUT /{user_id}/tasks/{task_id}: the rule is set when the body provides
\* one, null included, and stays as it is otherwise.
RestUpdateTask ==
    /\ MayEmit(bus)
    /\ \E id \in TaskIds, commitOk \in BOOLEAN :
          /\ tasks[id] # Absent
          /\ \E rule \in RestRules \cup {tasks[id]} :
                /\ tasks' = IF commitOk THEN [tasks EXCEPT ![id] = rule]
                            ELSE tasks
                /\ bus' = CommitThenFire(bus, commitOk, "todo.events",
                                         Event(Uuid4(bus.keys), "task_updated",
                                               Str(id), rule), 200)
          /\ last' = Response("update_task", id, commitOk, 200, bus, bus')
    /\ UNCHANGED <<running, now, life, auditVars, notifVars, recVars, remVars,
                   reminders, cancelSession>>

\* DELETE /{user_id}/tasks/{task_id}: the event carries the task as it was.
RestDeleteTask ==
    /\ MayEmit(bus)
    /\ \E id \in TaskIds, commitOk \in BOOLEAN :
          /\ tasks[id] # Absent
          /\ tasks' = IF commitOk THEN [tasks EXCEPT ![id] = Absent] ELSE tasks
          /\ bus' = CommitThenFire(bus, commitOk, "todo.events",
                                   Event(Uuid4(bus.keys), "task_deleted",
                                         Str(id), tasks[id]), 204)
          /\ last' = Response("delete_task", id, commitOk, 204, bus, bus')
    /\ UNCHANGED <<running, now, life, auditVars, notifVars, recVars, remVars,
                   reminders, cancelSession>>

Users == {"alice", "bob"}

\* create_reminder_event(event_type, str(reminder.id), user, {task_id, ...})
ReminderEvent(k, t, reminder_id, task_id) ==
    [idempotency_key |-> k, event_type |-> t, entity_id |-> Str(reminder_id),
     payload |-> [task_id |-> task_id]]

\* POST /{user_id}/tasks/{task_id}/reminder: 404 without the task, else a new
\* pending row of the user.
RestCreateReminder ==
    /\ MayEmit(bus)
    /\ Len(reminders) < MaxReminders
    /\ \E task_id \in TaskIds, user \in Users, commitOk \in BOOLEAN :
          IF tasks[task_id] = Absent
          THEN /\ last' = [name |-> "create_reminder", id |-> 0,
                           committed |-> FALSE, status |-> 404, fired |-> {}]
               /\ UNCHANGED <<reminders, bus>>
          ELSE LET id == Len(reminders) + 1
               IN  /\ reminders' =
                         IF commitOk
                         THEN Append(reminders, [task_id |-> task_id,
                                                 user_id |-> user,
                                                 trigger_at |-> now,
                                                 status |-> "pending"])
                         ELSE reminders
                   /\ bus' = CommitThenFire(bus, commitOk, "reminder.events",
                                            ReminderEvent(Uuid4(bus.keys),
                                                          "reminder_scheduled",
                                                          id, task_id), 201)
                   /\ last' = Response("create_reminder", id, commitOk, 201,
                                       bus, bus')
    /\ UNCHANGED <<running, now, life, auditVars, notifVars, recVars, remVars,
                   tasks, cancelSession>>

\* A query that leaves out the user.
PendingOfAnyUser(rems, task_id, user) == PendingOf(rems, task_id)

\* SELECT ... WHERE task_id = ? AND user_id = ? AND status = 'pending'
PendingOfUser(rems, task_id, user) ==
    {i \in PendingOf(rems, task_id) : rems[i].user_id = user}

\* DELETE /{user_id}/tasks/{task_id}/reminder: 404 without a pending row of
\* the task and the user, else .first() of them is cancelled.
RestCancelReminder ==
    /\ \E task_id \in TaskIds, user \in Users, commitOk \in BOOLEAN :
          LET pending == PendingOfUser(reminders, task_id, user)
              asked == [task_id |-> task_id, user |-> user]
          IN  IF pending = {}
              THEN /\ last' = [name |-> "cancel_reminder", id |-> 0,
                               asked |-> asked, committed |-> FALSE,
                               status |-> 404, fired |-> {}]
                   /\ UNCHANGED <<reminders, bus>>
              ELSE /\ MayEmit(bus)
                   /\ \E i \in pending :
                         /\ reminders' = IF commitOk
                                         THEN Flush(reminders, {i}, "cancelled")
                                         ELSE reminders
                         /\ bus' = CommitThenFire(
                                       bus, commitOk, "reminder.events",
                                       ReminderEvent(Uuid4(bus.keys),
                                                     "reminder_cancelled",
                                                     i, task_id), 200)
                         /\ last' = Response("cancel_reminder", i, commitOk,
                                             200, bus, bus')
                                        @@ [asked |-> asked]
    /\ UNCHANGED <<running, now, life, auditVars, notifVars, recVars, remVars,
                   tasks, cancelSession>>

\* The rules create_recurring builds: a valid frequency, an interval >= 1.
ToolRules == {Daily1, Weekly2}

\* The create_recurring tool: the rule is committed, no event is built.
ToolCreateRecurring ==
    /\ \E id \in TaskIds, rule \in ToolRules, commitOk \in BOOLEAN :
          /\ tasks[id] # Absent
          /\ tasks' = IF commitOk THEN [tasks EXCEPT ![id] = rule] ELSE tasks
          /\ last' = [name |-> "create_recurring", id |-> id,
                      committed |-> commitOk,
                      status |-> IF commitOk THEN "success" ELSE "error",
                      fired |-> {}]
    /\ UNCHANGED <<running, now, life, auditVars, notifVars, recVars, remVars,
                   reminders, backendVars>>

\* publish_event(topic, event) of a scheduled task: the sidecar accepts the
\* event (200, 204) or it does not (another status, a connection error, any
\* exception); publish_event returns True or False.
PublishEvent(ok) ==
    /\ \E s \in bus.scheduled :
          /\ bus' = [bus EXCEPT !.scheduled = @ \ {s},
                                !.topic = IF ok THEN @ \cup {s} ELSE @]
          /\ last' = [name |-> "publish_event", event |-> s.event,
                      response |-> s.response, returned |-> ok,
                      raised |-> FALSE]
    /\ UNCHANGED <<running, now, life, auditVars, notifVars, recVars, remVars,
                   tasks, reminders, cancelSession>>

\* The delivery of an event of todo.events to the recurring consumer, in its
\* CloudEvents envelope.
DeliverTodo ==
    \E s \in {x \in bus.topic : x.topic = "todo.events"} :
        LET body == Wrap(s.event)
            r == RecurringTodoOutcome(body)
        IN  /\ schedule' = r.schedule
            /\ recKeys' = r.keys
            /\ bus' = [bus EXCEPT !.topic = @ \ {s}]
            /\ Record("recurring_todo", body, r.outcome, r.schedule # schedule)
            /\ UNCHANGED <<running, now, life, auditVars, notifVars, remVars,
                           ticks, tasks, reminders, cancelSession>>

\* The backend and a running recurring consumer; the sidecar accepts every
\* publish and every published event is delivered.
NextRegister ==
    \/ RestCreateTask
    \/ RestUpdateTask
    \/ ToolCreateRecurring
    \/ PublishEvent(TRUE)
    \/ DeliverTodo

SpecRegister ==
    /\ InitRecurring
    /\ [][NextRegister]_vars
    /\ WF_vars(PublishEvent(TRUE))
    /\ WF_vars(DeliverTodo)

\* Reminders tables earlier requests and sweeps have left.
UserReminders ==
    {<< >>,
     <<[task_id |-> 1, user_id |-> "alice", trigger_at |-> 0, status |-> "pending"],
       [task_id |-> 1, user_id |-> "bob", trigger_at |-> 0, status |-> "pending"]>>,
     <<[task_id |-> 1, user_id |-> "alice", trigger_at |-> 0, status |-> "triggered"],
       [task_id |-> 1, user_id |-> "alice", trigger_at |-> 0, status |-> "cancelled"]>>,
     <<[task_id |-> 2, user_id |-> "bob", trigger_at |-> 0, status |-> "pending"],
       [task_id |-> 2, user_id |-> "bob", trigger_at |-> 0, status |-> "pending"]>>}

\* The backend on its own: the sidecar accepts a publish or it does not.
InitBackend ==
    /\ \E rems \in UserReminders : StartedWith({"reminder"}, rems)
    /\ last = [name |-> "start"]

PublishAttempt == \E ok \in BOOLEAN : PublishEvent(ok)

NextBackend ==
    \/ RestCreateTask
    \/ RestUpdateTask
    \/ RestDeleteTask
    \/ RestCreateReminder
    \/ RestCancelReminder
    \/ PublishAttempt

SpecBackend == InitBackend /\ [][NextBackend]_vars

(***************************************************************************)
(* Properties.                                                             *)
(***************************************************************************)
AuditHandlers == {"audit_todo", "audit_ai", "audit_audit"}

\* C1: when the same body with a non-empty idempotency_key is delivered twice
\* in sequence to the same handler of the same running process, the second
\* delivery has no domain side effect (no audit row, no notification, no
\* schedule change) and both deliveries return the success acknowledgment.
C1_RepeatHasNoEffect ==
    (IsDelivery(last) /\ last.repeat /\ KeyOf(last.body) # NoKey) =>
        /\ ~last.effect
        /\ last.ack = "SUCCESS"
        /\ last.prevAck = "SUCCESS"

\* The weekly registration of task 1 made on day 0 was delivered again to the
\* recurring consumer on day 2 and skipped as a duplicate.
C1_Witness ==
    /\ last.name = "recurring_todo"
    /\ last.repeat
    /\ last.outcome = "duplicate"
    /\ KeyOf(last.body) = "k1"
    /\ now = 2
    /\ schedule = <<[id |-> 1, at |-> 14]>>

\* C2 as stated: once an event with a non-empty key has been delivered to an
\* audit handler and delivered again, the store holds exactly one audit row
\* for the key, whether or not the store write of the first delivery
\* succeeded (stated for the first process lifetime).
C2_ExactlyOneRow ==
    (life = 0 /\ last.name \in AuditHandlers /\ last.repeat
        /\ KeyOf(last.body) # NoKey) => auditRows[KeyOf(last.body)] = 1

\* C2: within one process lifetime the audit consumer writes at most one row
\* per non-empty idempotency key: the delivery that is processed writes one
\* row when its store write succeeds and none when it fails, marks the key in
\* both cases, and every later delivery of the key is skipped.
C2_AtMostOneRow ==
    /\ \A k \in Keys : auditWritten[k] <= 1 /\ (auditWritten[k] = 1 => k \in auditKeys)
    /\ (last.name \in AuditHandlers /\ last.outcome = "processed"
            /\ KeyOf(last.body) # NoKey) =>
          /\ KeyOf(last.body) \in auditKeys
          /\ auditWritten[KeyOf(last.body)] = IF last.effect THEN 1 ELSE 0

\* An event whose first store write failed was delivered again and skipped:
\* its key is marked and it has no audit row.
C2_Witness ==
    /\ last.name \in AuditHandlers
    /\ last.repeat
    /\ last.outcome = "duplicate"
    /\ auditRows[KeyOf(last.body)] = 0
    /\ \E k \in Keys \ {KeyOf(last.body)} : auditWritten[k] = 1

\* C3: every delivery to every handler is answered {"status": "SUCCESS"}:
\* fresh, duplicate, of an unrecognized event_type, undecodable, or raising
\* in the domain operation.
C3_AlwaysSuccess ==
    IsDelivery(last) => last.ack = "SUCCESS"

\* A decodable event whose domain operation raised was acknowledged.
C3_Witness ==
    /\ IsDelivery(last)
    /\ last.outcome = "raised"
    /\ ~JsonRaises(last.body)
    /\ last.ack = "SUCCESS"

Terminal == {"triggered", "cancelled"}

\* C4: a reminder whose status is triggered or cancelled keeps that status in
\* every step, however the sweep's and cancel_reminder's store accesses
\* interleave.
C4_TerminalIsFinal ==
    [][\A i \in DOMAIN reminders :
          reminders[i].status \in Terminal =>
              reminders'[i].status = reminders[i].status]_vars

\* C5: a sweep at time now whose store accesses succeed sets to triggered
\* exactly the reminders that were pending with trigger_at <= now, leaves
\* every other reminder as it was, and returns the number it set.
C5_FiresExactlyDue ==
    [][(last'.name = "reminder_sweep" /\ last'.storeOk) =>
          LET due == {i \in DOMAIN reminders :
                         /\ reminders[i].status = "pending"
                         /\ reminders[i].trigger_at <= now}
          IN  /\ DOMAIN reminders' = DOMAIN reminders
              /\ \A i \in DOMAIN reminders :
                    reminders'[i] = IF i \in due
                                    THEN [reminders[i] EXCEPT !.status = "triggered"]
                                    ELSE reminders[i]
              /\ last'.fired = Cardinality(due)]_vars

\* A sweep fired the one reminder that was due and left the one that was not.
C5_Witness ==
    /\ last.name = "reminder_sweep"
    /\ last.storeOk
    /\ last.fired = 1
    /\ \E i, j \in DOMAIN reminders :
          /\ last.selected = {i}
          /\ reminders[i].status = "triggered" /\ reminders[i].trigger_at <= now
          /\ reminders[j].status = "pending" /\ reminders[j].trigger_at > now

\* C6 as stated: a sweep that follows a sweep, with nothing created or become
\* due in between, returns 0 and changes no reminder.
C6_SecondSweepIdle ==
    (last.name = "reminder_sweep" /\ last.prev # "other") =>
        last.fired = 0 /\ ~last.changed

\* C6: a sweep that follows a sweep whose store accesses succeeded, with
\* nothing created or become due in between, returns 0 and changes no
\* reminder; a sweep selects only reminders stored as pending, and a reminder
\* stored as triggered stays triggered, so that no reminder is set to
\* triggered twice.
C6_SecondSweepIdleAfterSuccess ==
    [][/\ (last'.name = "reminder_sweep" /\ last'.prev = "ok") =>
              last'.fired = 0 /\ ~last'.changed /\ reminders' = reminders
       /\ last'.name = "reminder_sweep" =>
              \A i \in last'.selected : reminders[i].status = "pending"
       /\ \A i \in DOMAIN reminders :
              reminders[i].status = "triggered" =>
                  reminders'[i].status = "triggered"]_vars

\* A sweep ran right after a sweep that had fired a reminder, and found
\* nothing to fire.
C6_Witness ==
    /\ last.name = "reminder_sweep"
    /\ last.prev = "ok"
    /\ last.fired = 0
    /\ \E i \in DOMAIN reminders :
          reminders[i].status = "triggered" /\ reminders[i].trigger_at = now

\* The step is a sweep of the recurring consumer.
IsRecurringSweep == last'.name = "recurring_sweep"

\* The entries of the schedule that are due at time t.
DueEntries(s, t) == {id \in Tracked(s) : TriggerAt(s, id) <= t}

\* Every entry not due at time t is in s2 as it is in s1.
NotDueUnchanged(s1, s2, t) ==
    \A id \in Tracked(s1) \ DueEntries(s1, t) :
        id \in Tracked(s2) /\ TriggerAt(s2, id) = TriggerAt(s1, id)

IsTodoDelivery == last'.name = "recurring_todo" /\ now' = now

Evaluated(f) ==
    /\ last.name = "compute_next_trigger"
    /\ Truthy(last.rule)
    /\ Get(last.rule, "frequency", "none") = f
    /\ Get(last.rule, "interval", 0) >= 1

\* C10: for every from_time and every interval N >= 1, _compute_next_trigger
\* returns from_time + N days for "daily", from_time + 7N days for "weekly"
\* and from_time + 30N days for "monthly".
C10_FixedPeriods ==
    /\ Evaluated("daily") => last.result = <<last.from_time + last.rule.interval>>
    /\ Evaluated("weekly") =>
          last.result = <<last.from_time + 7 * last.rule.interval>>
    /\ Evaluated("monthly") =>
          last.result = <<last.from_time + 30 * last.rule.interval>>

\* A weekly rule of interval 2 evaluated from day 1 gave day 15.
C10_Witness ==
    /\ Evaluated("weekly")
    /\ last.rule.interval = 2
    /\ last.from_time = 1
    /\ last.result = <<15>>

\* C11: for a frequency other than daily, weekly and monthly (yearly, custom)
\* _compute_next_trigger returns from_time + 1 day whatever the interval is
\* (a number of any sign, absent, null), and logs a warning.
C11_FallbackOneDay ==
    (/\ last.name = "compute_next_trigger"
     /\ Truthy(last.rule)
     /\ Get(last.rule, "frequency", "daily") \in {"yearly", "custom"}) =>
        /\ ~last.raised
        /\ last.result = <<last.from_time + 1>>
        /\ last.warned

\* A yearly rule of interval 3 evaluated from day 2 gave day 3, with a warning.
C11_Witness ==
    /\ last.name = "compute_next_trigger"
    /\ last.rule = [frequency |-> "yearly", interval |-> 3]
    /\ last.from_time = 2
    /\ last.result = <<3>>
    /\ last.warned

\* C12: _compute_next_trigger never raises; it returns a timestamp for every
\* rule mapping (also one without a frequency, or with an absent or a null
\* interval) and None exactly when the rule is empty or null.
C12_NeverFails ==
    last.name = "compute_next_trigger" =>
        /\ ~last.raised
        /\ (last.result = None) <=> ~Truthy(last.rule)

\* The _processed_keys sets and the state the domain operations write.
KeySets == <<auditKeys, notifKeys, recKeys, remKeys>>
DomainState == <<auditRows, auditWritten, notified, schedule>>

\* C13: the steps of a delivery come in the order decode, duplicate check,
\* domain operation, mark.  A key enters _processed_keys only in the step
\* after the domain operation of its delivery has returned; the domain
\* operation runs only after the duplicate check has let the delivery pass,
\* with a key that is empty or not yet marked; a delivery found to be a
\* duplicate ends at the check, with nothing written.
C13_StepOrder ==
    [][/\ KeySets' # KeySets =>
              /\ last.name = "in_flight" /\ last.pc = "done"
              /\ ProcessedKeys' = ProcessedKeys \cup {KeyOf(last.body)}
              /\ DomainState' = DomainState
              /\ IsDelivery(last') /\ last'.outcome = "processed"
       /\ DomainState' # DomainState =>
              /\ last.name = "in_flight" /\ last.pc = "checked"
              /\ KeyOf(last.body) \notin ProcessedKeys
              /\ last'.name = "in_flight" /\ last'.pc = "done"
       /\ (IsDelivery(last') /\ now' = now /\ last'.outcome = "duplicate") =>
              /\ last.name = "in_flight" /\ last.pc = "decoded"
              /\ DomainState' = DomainState /\ KeySets' = KeySets
       /\ (last'.name = "in_flight" /\ last'.pc = "checked") =>
              last.name = "in_flight" /\ last.pc = "decoded"
       /\ (last'.name = "in_flight" /\ last'.pc = "done") =>
              last.name = "in_flight" /\ last.pc = "checked"]_vars

\* The registration of task 1 has been made and its key is not yet marked.
C13_Witness ==
    /\ running = "recurring"
    /\ last.name = "in_flight"
    /\ last.pc = "done"
    /\ KeyOf(last.body) = "k1"
    /\ 1 \in Tracked(schedule)
    /\ "k1" \notin recKeys

\* C14: a delivery whose event has an empty or absent idempotency_key is
\* never answered as a duplicate: the domain operation runs every time (an
\* audit row is written whenever the store takes it, a notification is sent
\* every time), and the delivery adds nothing to _processed_keys, which never
\* holds the empty key.
C14_KeylessAlwaysProcessed ==
    [][(/\ IsDelivery(last') /\ now' = now
        /\ ~JsonRaises(last'.body)
        /\ KeyOf(last'.body) = NoKey) =>
           /\ last'.outcome # "duplicate"
           /\ KeySets' = KeySets
           /\ NoKey \notin (auditKeys' \cup notifKeys' \cup recKeys' \cup remKeys')
           /\ last'.name \in AuditHandlers =>
                 /\ last'.outcome = "processed"
                 /\ auditRows'[NoKey] =
                       auditRows[NoKey] + (IF last'.effect THEN 1 ELSE 0)
           /\ last'.name = "notification_todo" =>
                 /\ last'.outcome = "processed"
                 /\ notified'[NoKey] = notified[NoKey] + 1]_vars

\* The same keyless event delivered twice to the audit consumer: two rows.
C14_Witness ==
    /\ running = "audit"
    /\ last.name = "audit_todo"
    /\ KeyOf(last.body) = NoKey
    /\ ~JsonRaises(last.body)
    /\ last.repeat
    /\ last.outcome = "processed"
    /\ auditRows[NoKey] = 2
    /\ auditKeys = {}

\* C15: within one recurring process two cron requests never interleave:
\* at most one request is inside its sweep at a time, a request starts its
\* sweep (reads the schedule) only when no other is inside one, and no two
\* requests report the same entry for the same due instant.
C15_SweepsDoNotInterleave ==
    \A q1, q2 \in Requests :
        q1 # q2 =>
            /\ ~(ticks[q1].pc = "running" /\ ticks[q2].pc = "running")
            /\ (ticks[q1].pc = "running" /\ ticks[q2].pc = "returned") =>
                   ticks[q1].reported \cap ticks[q2].reported = {}
            /\ (ticks[q1].pc = "returned" /\ ticks[q2].pc = "returned") =>
                   ticks[q1].reported \cap ticks[q2].reported = {}

\* Request b waits while request a is inside its sweep of a due entry.
C15_Witness ==
    /\ ticks["a"].pc = "running"
    /\ ticks["b"].pc = "accepted"
    /\ Len(ticks["a"].due) > 0

\* C16: a sweep never adds a task id to the schedule: every entry it leaves
\* was tracked before, it reports only tracked entries, and its request is
\* answered without an error; so a task of the store whose registration event
\* has not been handled yet is passed over.  On an empty schedule the sweep
\* returns 0 and leaves the schedule empty.
C16_SweepNeverAdds ==
    [][IsRecurringSweep =>
          /\ Tracked(schedule') \subseteq Tracked(schedule)
          /\ last'.reported \subseteq Tracked(schedule)
          /\ last'.response = "SUCCESS"
          /\ schedule = << >> =>
                /\ last'.spawned = 0
                /\ ~last'.failed
                /\ schedule' = << >>]_vars

\* Task 1 is in the store with a daily rule and the process has not handled
\* its registration: the sweep on day 1 returned 0 and tracks nothing.
C16_Witness ==
    /\ last.name = "recurring_sweep"
    /\ tasks[1] = Daily1
    /\ now = 1
    /\ life = 0
    /\ schedule = << >>
    /\ last.spawned = 0
    /\ ~last.failed

\* The store tasks a scan finds untracked with a rule that is neither null
\* nor {}, and those of them on whose rule the evaluator raises.
Untracked(before) ==
    {id \in TaskIds : /\ tasks[id] # Absent
                      /\ Truthy(tasks[id])
                      /\ id \notin Tracked(before)}
UntrackedRaising(before) ==
    {id \in Untracked(before) : ComputeNextTriggerRaises(tasks[id])}

\* C17 as stated: a scan that reaches the store registers every store task
\* with a non-null rule that is not tracked yet.
C17_RegistersNonNull ==
    (last.name = "reconcile" /\ last.storeOk) =>
        \A id \in TaskIds :
            (tasks[id] # Absent /\ tasks[id] # NullRule) =>
                id \in Tracked(schedule)

\* C17: a scan leaves every entry it finds in the schedule as it is, and adds
\* entries only for untracked store tasks whose rule is neither null nor {},
\* each at scan time + the period of its rule.  It adds all of them when the
\* store is reachable and the evaluator raises on none of their rules; a rule
\* on which the evaluator raises (a null interval) ends the scan at that row.
\* When the store is unavailable the schedule is unchanged.
C17_RegistersNonEmpty ==
    last.name = "reconcile" =>
        LET fresh == Untracked(last.before)
            raising == UntrackedRaising(last.before)
        IN  /\ \A id \in Tracked(last.before) :
                  /\ id \in Tracked(schedule)
                  /\ TriggerAt(schedule, id) = TriggerAt(last.before, id)
            /\ Tracked(schedule) \subseteq Tracked(last.before) \cup (fresh \ raising)
            /\ \A id \in Tracked(schedule) \ Tracked(last.before) :
                  <<TriggerAt(schedule, id)>> = ComputeNextTrigger(tasks[id], now)
            /\ (last.storeOk /\ raising = {}) =>
                  Tracked(schedule) = Tracked(last.before) \cup fresh
            /\ ~last.storeOk => schedule = last.before

\* A scan on day 2 found task 1 tracked for day 1 and kept it there, and
\* registered task 2 with its weekly rule.
C17_Witness ==
    /\ last.name = "reconcile"
    /\ last.storeOk
    /\ now = 2
    /\ last.before = <<[id |-> 1, at |-> 1]>>
    /\ tasks[1] = Daily1
    /\ tasks[2] = Weekly2
    /\ schedule = <<[id |-> 1, at |-> 1], [id |-> 2, at |-> 16]>>

\* C18: a sweep during which the store fails, having answered the queries
\* for the first n due entries, is answered with SUCCESS; the due entries
\* after the n-th keep their next_trigger_at and are due at the next sweep;
\* the sweep reports only entries among the first n and returns the number
\* it reports.
C18_StoreFailureContained ==
    [][(/\ IsRecurringSweep
        /\ last'.answered < Len(DueTaskIds(schedule, now))) =>
           LET due == DueTaskIds(schedule, now)
               n == last'.answered
               again == DueTaskIds(schedule', now)
           IN  /\ last'.response = "SUCCESS"
               /\ \A i \in (n + 1)..Len(due) :
                     /\ due[i] \in Tracked(schedule')
                     /\ TriggerAt(schedule', due[i]) = TriggerAt(schedule, due[i])
                     /\ \E j \in DOMAIN again : again[j] = due[i]
               /\ last'.reported \subseteq {due[i] : i \in 1..n}
               /\ last'.spawned = Cardinality(last'.reported)]_vars

\* Both tasks were due on day 1; the store answered for one and then failed:
\* one task was reported and the other is still due on day 1.
C18_Witness ==
    /\ last.name = "recurring_sweep"
    /\ last.answered = 1
    /\ last.failed
    /\ now = 1
    /\ last.spawned = 1
    /\ \E id \in Tracked(schedule) :
          /\ id \notin last.reported
          /\ tasks[id] = Daily1
          /\ TriggerAt(schedule, id) = 1
    /\ \E id \in last.reported : TriggerAt(schedule, id) = 2

\* The recurring process has just been restarted and its startup scan
\* reached the store.
RestartedAndScanned ==
    /\ running = "recurring"
    /\ last.name = "restart"
    /\ last.scanned

\* C19 as stated: after a restart and a successful startup scan the tracked
\* ids are the store tasks with a non-null rule.
C19_RecoversNonNull ==
    RestartedAndScanned =>
        Tracked(schedule) =
            {id \in TaskIds : tasks[id] # Absent /\ tasks[id] # NullRule}

\* C19: after a restart and a startup scan that reached the store, every
\* tracked id is a store task whose rule is neither null nor {}, tracked at
\* scan time + the period of its current rule, whatever the schedule held
\* before; the tracked ids are all such tasks when the evaluator raises on
\* none of their rules (a rule with a null interval ends the scan at its row).
C19_RecoversNonEmpty ==
    RestartedAndScanned =>
        /\ Tracked(schedule) \subseteq Untracked(<< >>) \ UntrackedRaising(<< >>)
        /\ UntrackedRaising(<< >>) = {} => Tracked(schedule) = Untracked(<< >>)
        /\ \A id \in Tracked(schedule) :
              <<TriggerAt(schedule, id)>> = ComputeNextTrigger(tasks[id], now)

\* Restarted on day 1 with task 1 daily and task 2 with the rule {} in the
\* store: task 1 is tracked for day 2, task 2 is not tracked.
C19_Witness ==
    /\ RestartedAndScanned
    /\ life = 1
    /\ now = 1
    /\ tasks[1] = Daily1
    /\ tasks[2] = EmptyRule
    /\ schedule = <<[id |-> 1, at |-> 2]>>

\* C20: a restart of the audit consumer leaves _processed_keys empty and the
\* audit rows in the store as they are; so the first delivery after the
\* restart of an event with a key, also of a key that was processed and has
\* its row from before the restart, is not skipped: the domain operation runs
\* and, the store taking it, writes one more row for the key.
C20_RestartForgetsKeys ==
    [][/\ (running = "audit" /\ life' = life + 1) =>
              /\ auditKeys' = {}
              /\ auditRows' = auditRows
       /\ (/\ running = "audit"
           /\ last.name = "restart"
           /\ IsDelivery(last') /\ now' = now
           /\ KeyOf(last'.body) # NoKey) =>
              /\ last'.outcome = "processed"
              /\ auditRows'[KeyOf(last'.body)] =
                    auditRows[KeyOf(last'.body)] + (IF last'.effect THEN 1 ELSE 0)
              /\ auditKeys' = {KeyOf(last'.body)}]_vars

\* Key k1 had its row written before the restart; its redelivery after the
\* restart wrote a second row.
C20_Witness ==
    /\ running = "audit"
    /\ life = 1
    /\ IsDelivery(last)
    /\ KeyOf(last.body) = "k1"
    /\ last.outcome = "processed"
    /\ last.effect
    /\ auditWritten["k1"] = 1
    /\ auditRows["k1"] = 2

\* A step that is the delivery of a decoded body.
IsDeliveryStep == IsDelivery(last') /\ now' = now /\ ~JsonRaises(last'.body)

\* C21: a todo event delivered to the recurring consumer whose event_type is
\* not task_created or task_updated, or whose payload carries no
\* recurring_rule (none, or null), and every event delivered to the reminder
\* consumer, whatever its event_type, is acknowledged with SUCCESS and leaves
\* the schedule and the reminders table as they are.
C21_NoEffectEvents ==
    [][IsDeliveryStep =>
          LET ev == ExtractEventData(last'.body)
              event_type == Get(ev, "event_type", "unknown")
              payload == Get(ev, "payload", EmptyDict)
              norule == Get(payload, "recurring_rule", NullRule) = NullRule
          IN  /\ (/\ last'.name = "recurring_todo"
                  /\ (event_type \notin {"task_created", "task_updated"} \/ norule)) =>
                     /\ last'.ack = "SUCCESS"
                     /\ schedule' = schedule
                     /\ reminders' = reminders
              /\ last'.name = "reminder_reminder" =>
                     /\ last'.ack = "SUCCESS"
                     /\ schedule' = schedule
                     /\ reminders' = reminders]_vars

\* Task 1 is tracked and a task_deleted event for it, carrying a weekly rule,
\* has been handled: the entry is as the daily registration left it.
C21_Witness ==
    /\ last.name = "recurring_todo"
    /\ last.body = Event("k2", "task_deleted", "1", Weekly2)
    /\ last.outcome = "processed"
    /\ schedule = <<[id |-> 1, at |-> 1]>>
    /\ now = 0
    /\ Len(reminders) > 0

\* C22: for every event e without a top-level data field, the body {data: e}
\* and the body e, delivered to the same handler in the same state, end the
\* same way, leave the same state and get the same acknowledgment: for the
\* handlers of the audit consumer, whether the store takes the row or not, and
\* for handle_todo_event of the recurring consumer.
C22_EnvelopeEquivalent ==
    \A e \in TodoEvents \cup OtherEvents :
        "data" \notin DOMAIN e =>
            /\ \A storeOk \in BOOLEAN :
                  AuditOutcome(Wrap(e), storeOk) = AuditOutcome(e, storeOk)
            /\ RecurringTodoOutcome(Wrap(e)) = RecurringTodoOutcome(e)
            /\ HandlerResponse(RecurringTodoOutcome(Wrap(e)).outcome) =
                  HandlerResponse(RecurringTodoOutcome(e).outcome)

\* The enveloped registration of task 1 has been handled by the recurring
\* consumer, and its key is marked as the bare event would have it.
C22_Witness ==
    /\ last.name = "recurring_todo"
    /\ last.body = Wrap(Event("k1", "task_created", "1", Weekly2))
    /\ last.outcome = "processed"
    /\ last.effect
    /\ 1 \in Tracked(schedule)
    /\ "k1" \in recKeys
    /\ RecurringTodoOutcome(Event("k1", "task_created", "1", Weekly2)).outcome
          = "duplicate"

\* The template of a tracked task is gone from the store, or its rule is
\* cleared (null, or {}).
Dropped(id) == tasks[id] = Absent \/ ~Truthy(tasks[id])

\* C23: a sweep never counts a due entry whose template is gone or has its
\* rule cleared; it removes the entry when its loop gets to it, and goes on:
\* in a sweep that the store and the evaluator let finish, every such entry is
\* removed and every other due entry is reported.
C23_DropsAndContinues ==
    [][IsRecurringSweep =>
          LET due == DueTaskIds(schedule, now)
              n == last'.answered
              stopped(i) == \E j \in 1..(i - 1) :
                               ~Dropped(due[j]) /\ ComputeNextTriggerRaises(tasks[due[j]])
          IN  \A i \in DOMAIN due :
                  /\ Dropped(due[i]) =>
                        /\ due[i] \notin last'.reported
                        /\ (i <= n /\ ~stopped(i)) => due[i] \notin Tracked(schedule')
                  /\ (~Dropped(due[i]) /\ ~last'.failed) =>
                        /\ due[i] \in last'.reported
                        /\ due[i] \in Tracked(schedule')]_vars

\* Both entries were due; the template of task 1 is gone and task 2 has its
\* daily rule: the sweep removed the entry of task 1 and reported task 2.
C23_Witness ==
    /\ last.name = "recurring_sweep"
    /\ last.answered = 2
    /\ ~last.failed
    /\ tasks[1] = Absent
    /\ tasks[2] = Daily1
    /\ last.reported = {2}
    /\ last.spawned = 1
    /\ schedule = <<[id |-> 2, at |-> now + 1]>>

\* The reminders a step takes from pending to triggered in the store.
Fired == {i \in DOMAIN reminders :
             /\ reminders[i].status = "pending"
             /\ reminders'[i].status = "triggered"}

\* C24: the count a reminder sweep returns is the number of reminders whose
\* stored status the sweep changed from pending to triggered, whether its
\* store accesses succeeded or failed.
C24_CountIsStoredChanges ==
    [][last'.name = "reminder_sweep" => last'.fired = Cardinality(Fired)]_vars

\* C25: a reminder sweep stores its transitions in one commit: after a sweep
\* whose SELECT and commit succeeded every reminder it selected is stored as
\* triggered, and after a sweep whose commit failed every reminder it
\* selected is stored as it was, pending; no sweep leaves some of its
\* selection triggered and some pending.
C25_OneUnitOfWork ==
    [][last'.name = "reminder_sweep" =>
          /\ last'.storeOk =>
                \A i \in last'.selected : reminders'[i].status = "triggered"
          /\ ~last'.storeOk =>
                \A i \in last'.selected : reminders'[i] = reminders[i]
          /\ \/ \A i \in last'.selected : reminders'[i].status = "triggered"
             \/ \A i \in last'.selected : reminders'[i].status = "pending"]_vars

\* Two reminders were due; the commit of the sweep failed and both are still
\* pending.
C25_Witness ==
    /\ last.name = "reminder_sweep"
    /\ ~last.storeOk
    /\ last.selected = {1, 2}
    /\ last.fired = 2
    /\ reminders[1].status = "pending"
    /\ reminders[2].status = "pending"

\* C26: the delivery of a reminder event to the reminder consumer, whatever
\* its event_type, leaves the reminders table as it is; of the consumer's
\* operations only the sweep changes a stored reminder, and what it changes
\* is the status, from pending to triggered.
C26_OnlySweepChangesStatus ==
    [][/\ (IsDelivery(last') /\ now' = now /\ last'.name = "reminder_reminder") =>
              reminders' = reminders
       /\ reminders' # reminders =>
              /\ last'.name = "reminder_sweep"
              /\ DOMAIN reminders' = DOMAIN reminders
              /\ \A i \in DOMAIN reminders :
                    reminders'[i] # reminders[i] =>
                        /\ reminders[i].status = "pending"
                        /\ reminders'[i] =
                              [reminders[i] EXCEPT !.status = "triggered"]]_vars

\* A reminder_cancelled event for task 1 has been handled and the reminder of
\* task 1 is still pending.
C26_Witness ==
    /\ last.name = "reminder_reminder"
    /\ last.body = PlainEvent("k2", "reminder_cancelled", "1")
    /\ last.outcome = "processed"
    /\ reminders = <<[task_id |-> 1, trigger_at |-> 1, status |-> "pending"]>>

\* The step is the handling, not skipped as a duplicate, of a task_created or
\* task_updated event for a task that is tracked.
IsRegistrationOfTracked ==
    /\ IsTodoDelivery
    /\ last'.outcome = "processed"
    /\ LET ev == ExtractEventData(last'.body)
       IN  /\ Get(ev, "event_type", "unknown") \in {"task_created", "task_updated"}
           /\ ParsesAsInt(Get(ev, "entity_id", "None"))
           /\ IntOf(ev.entity_id) \in Tracked(schedule)

\* The rule and the task id of the event a step delivers.
RuleOf(body) ==
    Get(Get(ExtractEventData(body), "payload", EmptyDict), "recurring_rule", NullRule)
TaskOf(body) == IntOf(ExtractEventData(body).entity_id)

C28_NextFromCurrentRuleAndNow ==
    [][IsRecurringSweep =>
          \A id \in last'.reported :
              /\ id \in Tracked(schedule')
              /\ <<TriggerAt(schedule', id)>> = ComputeNextTrigger(tasks[id], now)
              /\ TriggerAt(schedule, id) <= now]_vars

\* The entry of task 1 was due before day 2 and its template has the weekly
\* rule with interval 2: the sweep on day 2 reported it and set it to day 16.
C28_Witness ==
    /\ last.name = "recurring_sweep"
    /\ 1 \in last.reported
    /\ now = 2
    /\ tasks[1] = Weekly2
    /\ TriggerAt(schedule, 1) = 16

\* The template of the task has a daily, weekly or monthly rule whose
\* interval is a number below 1.
StuckRule(id) ==
    /\ tasks[id] # Absent
    /\ Truthy(tasks[id])
    /\ Get(tasks[id], "frequency", "daily") \in KnownFrequencies
    /\ "interval" \in DOMAIN tasks[id]
    /\ tasks[id].interval <= 0

\* C29: a sweep that reports a task whose rule is daily, weekly or monthly
\* with an interval <= 0 leaves its next_trigger_at at or before the sweep
\* time (the sweep time itself for interval 0, earlier for a negative one),
\* so the entry is due again at once; it stays due as time passes, and every
\* later sweep that the store lets finish reports it again.
C29_NonPositiveIntervalStuck ==
    [][/\ IsRecurringSweep =>
              \A id \in DueEntries(schedule, now) :
                  StuckRule(id) =>
                      /\ ~last'.failed => id \in last'.reported
                      /\ id \in DueEntries(schedule', now)
                      /\ id \in last'.reported =>
                            /\ TriggerAt(schedule', id) <= now
                            /\ TriggerAt(schedule', id) =
                                  now + Get(tasks[id], "interval", 1)
                                        * (CASE tasks[id].frequency = "daily" -> 1
                                             [] tasks[id].frequency = "weekly" -> 7
                                             [] OTHER -> 30)
       /\ last.name # "sweep_input" =>
              \A id \in DueEntries(schedule, now) :
                  StuckRule(id) => id \in DueEntries(schedule', now')]_vars

\* Task 1 has the weekly rule with interval -1: the sweep on day 1 reported
\* it and set its entry to day -6.
C29_Witness ==
    /\ last.name = "recurring_sweep"
    /\ 1 \in last.reported
    /\ tasks[1] = Rule("weekly", -1)
    /\ now = 1
    /\ TriggerAt(schedule, 1) = -6

\* No tracked task has a rule with an interval below 1.
NoStuckRule == \A id \in Tracked(schedule) : ~StuckRule(id)

\* The period of the rule of a task, in days.
PeriodOf(id) == ComputeNextTrigger(tasks[id], 0)[1]

\* C30 as stated: with every interval >= 1, a sweep repeated at the same now
\* returns 0 and changes nothing.
C30_RepeatedSweepIdle ==
    [][(IsRecurringSweep /\ last.name = "recurring_sweep" /\ NoStuckRule) =>
          /\ last'.spawned = 0
          /\ schedule' = schedule]_vars

\* C30: with every interval >= 1, a sweep reports each task at most once
\* (its count is the number of tasks it reports), reports only entries that
\* were due, and leaves every entry it reported at sweep time + period, past
\* the sweep time; no other step moves an entry, so two successive reports of
\* a task are at least one period apart.  A sweep repeated at the same now
\* after a sweep that the store let finish returns 0 and changes nothing;
\* after a sweep cut short by a store failure it reports the entries that one
\* did not get to.
C30_ReportedOncePerPeriod ==
    [][/\ (IsRecurringSweep /\ NoStuckRule) =>
              /\ last'.spawned = Cardinality(last'.reported)
              /\ \A id \in last'.reported :
                    /\ TriggerAt(schedule, id) <= now
                    /\ PeriodOf(id) >= 1
                    /\ TriggerAt(schedule', id) = now + PeriodOf(id)
                    /\ TriggerAt(schedule', id) > now
              /\ (last.name = "recurring_sweep" /\ ~last.failed) =>
                    /\ last'.spawned = 0
                    /\ schedule' = schedule
       /\ (~IsRecurringSweep /\ last.name # "sweep_input") =>
              schedule' = schedule]_vars

\* Task 1 has the daily rule; on day 2 a sweep reported it and set its entry
\* to day 3, and the sweep repeated on day 2 returned 0.
C30_Witness ==
    /\ last.name = "recurring_sweep"
    /\ ~last.failed
    /\ last.spawned = 0
    /\ now = 2
    /\ tasks[1] = Daily1
    /\ schedule = <<[id |-> 1, at |-> 3]>>

C32_RuleLeadsToEntry ==
    \A id \in TaskIds :
        [](tasks[id] \notin {Absent, NullRule} => <>(id \in Tracked(schedule)))

\* C33: within one consumer process, of two deliveries that carry the same
\* non-empty idempotency key and are held at the same time, at most one goes
\* through the domain operation.
C33_OverlapRunsOnce ==
    \A q, x \in Requests :
        (/\ q # x
         /\ ticks[q].pc = "returned"
         /\ ticks[x].pc = "returned"
         /\ x \in ticks[q].met
         /\ KeyOf(ticks[q].body) = KeyOf(ticks[x].body)
         /\ KeyOf(ticks[q].body) # NoKey)
        => ~(ticks[q].ran /\ ticks[x].ran)

\* Both requests carried key k1 and were held together: one went through
\* the domain operation, the other returned as a duplicate.
C33_Witness ==
    /\ ticks["a"].pc = "returned"
    /\ ticks["b"].pc = "returned"
    /\ "a" \in ticks["b"].met
    /\ KeyOf(ticks["a"].body) = "k1"
    /\ KeyOf(ticks["b"].body) = "k1"
    /\ ticks["a"].ran
    /\ ticks["b"].outcome = "duplicate"
    /\ ~ticks["b"].ran

\* The step is a delivery to a handler of the running process.
Handled == IsDelivery(last') /\ now' = now

\* The key the delivery just handled has marked, if it reached its mark.
Marked ==
    IF Handled /\ last'.outcome = "processed" /\ KeyOf(last'.body) # NoKey
    THEN {KeyOf(last'.body)} ELSE {}

\* C34: during a process lifetime _processed_keys only grows, never holds the
\* empty key, and gains exactly the non-empty key of a delivery whose handler
\* reached its mark; a delivery whose handler raised leaves the set as it is
\* and its redelivery is not skipped as a duplicate.
C34_KeysGrowByMarks ==
    [][/\ NoKey \notin ProcessedKeys'
       /\ life' = life =>
             /\ ProcessedKeys \subseteq ProcessedKeys'
             /\ ProcessedKeys' = ProcessedKeys \cup Marked
       /\ (Handled /\ last'.outcome = "raised") => ProcessedKeys' = ProcessedKeys
       /\ (Handled /\ last'.repeat /\ last.outcome = "raised") =>
             last'.outcome # "duplicate"]_vars

\* The delivery of the keyed event with a null payload has raised a second
\* time: its key is not in the set, the key of another delivery is.
C34_Witness ==
    /\ IsDelivery(last)
    /\ last.repeat
    /\ last.outcome = "raised"
    /\ KeyOf(last.body) = "k1"
    /\ ProcessedKeys = {"k2"}

\* The rows that differ between two reminders tables of the same length.
ChangedRows(before, after) == {i \in DOMAIN before : after[i] # before[i]}

\* C35: cancel_reminder changes exactly one reminder, a pending one of the
\* given task and user, to cancelled; without a pending reminder of that task
\* and user it answers not found, changes no reminder and emits no event.
C35_CancelsOneOrNotFound ==
    [][last'.name = "cancel_reminder" =>
          LET pending == {i \in DOMAIN reminders :
                             /\ reminders[i].task_id = last'.asked.task_id
                             /\ reminders[i].user_id = last'.asked.user
                             /\ reminders[i].status = "pending"}
          IN  /\ pending = {} <=> last'.status = 404
              /\ last'.status = 404 => reminders' = reminders /\ bus' = bus
              /\ last'.status = 200 =>
                    /\ last'.id \in pending
                    /\ Len(reminders') = Len(reminders)
                    /\ ChangedRows(reminders, reminders') = {last'.id}
                    /\ reminders'[last'.id] =
                          [reminders[last'.id] EXCEPT !.status = "cancelled"]
                    /\ Cardinality(last'.fired) = 1
                    /\ \A ev \in last'.fired :
                          ev.event_type = "reminder_cancelled"]_vars

\* Bob's pending reminder of task 1 was cancelled; Alice then asks for task 1
\* a second time, where her only reminder is cancelled already: not found.
C35_Witness ==
    /\ last.name = "cancel_reminder"
    /\ last.status = 404
    /\ last.asked = [task_id |-> 1, user |-> "alice"]
    /\ Len(reminders) = 2
    /\ reminders[1].status = "cancelled"
    /\ reminders[1].user_id = "alice"
    /\ reminders[2].status = "cancelled"
    /\ reminders[2].user_id = "bob"

Endpoints ==
    {"create_task", "update_task", "delete_task", "create_reminder",
     "cancel_reminder"}

\* The store after the request holds the mutation the event ev tells of.
Stored(ev, id) ==
    CASE ev.event_type = "task_deleted" -> tasks'[id] = Absent
      [] ev.event_type \in {"task_created", "task_updated"} ->
            tasks'[id] = ev.payload.recurring_rule
      [] ev.event_type = "reminder_scheduled" ->
            /\ Len(reminders') = id
            /\ reminders'[id].status = "pending"
            /\ reminders'[id].task_id = ev.payload.task_id
      [] ev.event_type = "reminder_cancelled" ->
            /\ reminders[id].status = "pending"
            /\ reminders'[id].status = "cancelled"
      [] OTHER -> FALSE

\* C36: a REST mutation of a task or a reminder is committed before its event
\* is emitted, so an event is emitted only with its mutation in the store; the
\* event's idempotency key is new, no event emitted before carries it; a
\* publish that fails returns False without raising and leaves the store and
\* the response of the request as they are.
C36_CommitThenEmitFreshKey ==
    [][/\ last'.name \in Endpoints =>
             /\ \A ev \in last'.fired :
                   /\ last'.committed
                   /\ Stored(ev, last'.id)
                   /\ ev.idempotency_key \notin bus.keys
                   /\ \A s \in bus.scheduled \cup bus.topic :
                         s.event.idempotency_key # ev.idempotency_key
             /\ ~last'.committed => tasks' = tasks /\ reminders' = reminders
       /\ (last'.name = "publish_event" /\ ~last'.returned) =>
             /\ ~last'.raised
             /\ tasks' = tasks
             /\ reminders' = reminders
             /\ last'.response \in {200, 201, 204}
             /\ bus'.topic = bus.topic]_vars

\* The publish of the task_created event of task 1 has failed: the task is
\* in the store with its daily rule, and a second event, with another key,
\* waits for its publish.
C36_Witness ==
    /\ last.name = "publish_event"
    /\ ~last.returned
    /\ last.response = 201
    /\ last.event.event_type = "task_created"
    /\ last.event.entity_id = "1"
    /\ tasks[1] = Daily1
    /\ bus.topic = {}
    /\ \E s \in bus.scheduled :
          s.event.idempotency_key # last.event.idempotency_key

\* The event is a task_created or task_updated with a non-null rule and an
\* entity_id that int() does not take.
BadEntityId(body) ==
    /\ ~JsonRaises(body)
    /\ LET ev == ExtractEventData(body)
           payload == Get(ev, "payload", EmptyDict)
       IN  /\ payload # JsonNull
           /\ Get(payload, "recurring_rule", NullRule) # NullRule
           /\ Get(ev, "event_type", "unknown") \in {"task_created", "task_updated"}
           /\ ~ParsesAsInt(Get(ev, "entity_id", "None"))

\* C37: a task_created or task_updated event with a non-null rule and an
\* entity_id that is not an integer registers nothing and leaves the schedule
\* as it is; its idempotency key is marked as processed and the delivery is
\* acknowledged.
C37_BadEntityIdMarked ==
    [][(IsTodoDelivery /\ BadEntityId(last'.body)) =>
          /\ schedule' = schedule
          /\ last'.outcome \in {"processed", "duplicate"}
          /\ KeyOf(last'.body) # NoKey => KeyOf(last'.body) \in recKeys'
          /\ last'.ack = "SUCCESS"]_vars

\* The event with entity_id "x" and a weekly rule was delivered to a process
\* that tracks task 2: it went through, key k1 is marked, the schedule still
\* holds task 2 alone.
C37_Witness ==
    /\ last.name = "recurring_todo"
    /\ BadEntityId(last.body)
    /\ last.outcome = "processed"
    /\ "k1" \in recKeys
    /\ Tracked(schedule) = {2}

=============================================================================
